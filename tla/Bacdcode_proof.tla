--------------------------- MODULE Bacdcode_proof ---------------------------
(***************************************************************************)
(* What the decoders of mstp/bacdcode.cpp make of what the encoders wrote, *)
(* for every value.                                                        *)
(***************************************************************************)
EXTENDS Bacdcode, SequenceTheorems, TLAPS

(* What decode_*_unsigned() makes of each length. *)
LEMMA DecodeCases ==
  ASSUME NEW s \in Seq(Octet)
  PROVE  /\ Len(s) = 1 => DecodeUnsigned(s) = <<0, 0, 0, s[1]>>
         /\ Len(s) = 2 => DecodeUnsigned(s) = <<0, 0, s[1], s[2]>>
         /\ Len(s) = 3 => DecodeUnsigned(s) = <<0, s[1], s[2], s[3]>>
         /\ Len(s) = 4 => DecodeUnsigned(s) = <<0, s[2], s[3], s[4]>>
<1>1. CASE Len(s) = 1
  BY <1>1, SMT DEF DecodeUnsigned
<1>2. CASE Len(s) = 2
  BY <1>2, SMT DEF DecodeUnsigned
<1>3. CASE Len(s) = 3
  BY <1>3, SMT DEF DecodeUnsigned
<1>4. CASE Len(s) = 4
  BY <1>4, SMT DEF DecodeUnsigned
<1> QED BY <1>1, <1>2, <1>3, <1>4, Zenon

LEMMA WordOctets ==
  ASSUME NEW w \in Word
  PROVE  /\ w[1] \in Octet /\ w[2] \in Octet /\ w[3] \in Octet /\ w[4] \in Octet
         /\ w = <<w[1], w[2], w[3], w[4]>>
BY SMT DEF Word

(* An unsigned integer below 2^24 is decoded to itself: the code that      *)
(* picks the shortest form and the code that reads the form agree.         *)
THEOREM UnsignedUnderstood ==
  ASSUME NEW w \in Word, w[1] = 0
  PROVE  DecodeUnsigned(EncodeUnsigned(w)) = w
<1> DEFINE s == EncodeUnsigned(w)
<1>0. /\ w[2] \in Octet /\ w[3] \in Octet /\ w[4] \in Octet
      /\ w = <<0, w[2], w[3], w[4]>>
  BY WordOctets
<1>1. CASE w[2] # 0
  <2>1. s = <<w[2], w[3], w[4]>>
    BY <1>1, Zenon DEF EncodeUnsigned
  <2>2. s \in Seq(Octet) /\ Len(s) = 3 /\ s[1] = w[2] /\ s[2] = w[3] /\ s[3] = w[4]
    BY <2>1, <1>0, SMT
  <2> HIDE DEF s
  <2> QED BY <2>2, <1>0, DecodeCases, Zenon DEF s
<1>2. CASE w[2] = 0 /\ w[3] # 0
  <2>1. s = <<w[3], w[4]>>
    BY <1>2, Zenon DEF EncodeUnsigned
  <2>2. s \in Seq(Octet) /\ Len(s) = 2 /\ s[1] = w[3] /\ s[2] = w[4]
    BY <2>1, <1>0, SMT
  <2> QED BY <2>2, <1>0, <1>2, DecodeCases, Zenon
<1>3. CASE w[2] = 0 /\ w[3] = 0
  <2>1. s = <<w[4]>>
    BY <1>3, Zenon DEF EncodeUnsigned
  <2>2. s \in Seq(Octet) /\ Len(s) = 1 /\ s[1] = w[4]
    BY <2>1, <1>0, SMT
  <2> QED BY <2>2, <1>0, <1>3, DecodeCases, Zenon
<1> QED BY <1>1, <1>2, <1>3, Zenon

(* One of 2^24 or more does not come back: its first octet is lost. *)
THEOREM WideUnsignedLost ==
  ASSUME NEW w \in Word, w[1] # 0
  PROVE  DecodeUnsigned(EncodeUnsigned(w)) = <<0, w[2], w[3], w[4]>>
<1> DEFINE s == EncodeUnsigned(w)
<1>1. s = <<w[1] \div 4, w[2], w[3], w[4]>>
  BY Zenon DEF EncodeUnsigned
<1>2. w[1] \div 4 \in Octet
  BY WordOctets, SMT DEF Octet
<1>3. s \in Seq(Octet) /\ Len(s) = 4 /\ s[2] = w[2] /\ s[3] = w[3] /\ s[4] = w[4]
  BY <1>1, <1>2, WordOctets, SMT
<1> QED BY <1>3, DecodeCases, Zenon

(* Object identifiers of ten bits of type and 22 bits of instance are      *)
(* packed into four octets and unpacked without loss.                      *)
THEOREM ObjectIdUnderstood ==
  ASSUME NEW type \in Nat, NEW instance \in Nat,
         type < 1024, instance < 4194304
  PROVE  /\ EncodeObjectId(type, instance) \in Word
         /\ DecodeObjectId(EncodeObjectId(type, instance)) = <<type, instance>>
<1> DEFINE w == EncodeObjectId(type, instance)
<1>1. /\ type % 1024 = type /\ instance % 4194304 = instance
      /\ type \div 4 \in 0 .. 255 /\ type % 4 \in 0 .. 3
      /\ type = 4 * (type \div 4) + (type % 4)
  BY SMT
<1>2. /\ instance \div 65536 \in 0 .. 63
      /\ (instance \div 256) % 256 \in 0 .. 255 /\ instance % 256 \in 0 .. 255
  BY SMT
<1>3. instance = 65536 * (instance \div 65536)
                   + 256 * ((instance \div 256) % 256) + (instance % 256)
  BY SMT
<1>4. w = <<type \div 4, 64 * (type % 4) + instance \div 65536,
            (instance \div 256) % 256, instance % 256>>
  BY <1>1, SMT DEF EncodeObjectId
<1>5. w \in Word
  BY <1>1, <1>2, <1>4, SMT DEF Word, Octet
<1>6. /\ (64 * (type % 4) + instance \div 65536) \div 64 = type % 4
      /\ (64 * (type % 4) + instance \div 65536) % 64 = instance \div 65536
  BY <1>1, <1>2, SMT
<1>7. DecodeObjectId(w) = <<type, instance>>
  BY <1>1, <1>3, <1>4, <1>6, SMT DEF DecodeObjectId
<1> QED BY <1>5, <1>7, SMT

-----------------------------------------------------------------------------
(* Piece x of the octets s begins at position n.                           *)
IsAt(s, n, x) ==
  /\ n - 1 + Len(x) <= Len(s)
  /\ \A i \in 1 .. Len(x) : s[n - 1 + i] = x[i]

LEMMA Behind ==
  ASSUME NEW p \in Seq(Octet), NEW q \in Seq(Octet), NEW n, n = Len(p) + 1
  PROVE  /\ p \o q \in Seq(Octet) /\ Len(p \o q) = Len(p) + Len(q)
         /\ IsAt(p \o q, n, q)
BY DEF IsAt

LEMMA StaysAt ==
  ASSUME NEW p \in Seq(Octet), NEW q \in Seq(Octet), NEW x \in Seq(Octet),
         NEW n \in Nat \ {0}, IsAt(p, n, x)
  PROVE  IsAt(p \o q, n, x)
<1>1. ASSUME NEW i \in 1 .. Len(x)
      PROVE  n - 1 + i \in 1 .. Len(p) /\ p[n - 1 + i] = x[i]
  BY <1>1 DEF IsAt
<1>2. \A j \in 1 .. Len(p) : (p \o q)[j] = p[j]
  OBVIOUS
<1>3. n - 1 + Len(x) <= Len(p \o q)
  BY DEF IsAt
<1> QED BY <1>1, <1>2, <1>3 DEF IsAt

(* The piece is a part of the octets, also when they are cut out.          *)
LEMMA Whole ==
  ASSUME NEW s \in Seq(Octet), NEW x \in Seq(Octet), NEW n \in Nat \ {0},
         IsAt(s, n, x), NEW m, m = n - 1 + Len(x)
  PROVE  SubSeq(s, n, m) = x
<1>1. m \in Nat /\ n <= m + 1 /\ m <= Len(s) /\ m - n + 1 = Len(x)
  BY DEF IsAt
<1>2. \A i \in n .. m : s[i] \in Octet
  BY <1>1
<1>3. /\ SubSeq(s, n, m) \in Seq(Octet) /\ Len(SubSeq(s, n, m)) = Len(x)
      /\ \A i \in 1 .. m - n + 1 : SubSeq(s, n, m)[i] = s[n + i - 1]
  BY <1>1, <1>2, SubSeqProperties
<1>4. ASSUME NEW i \in 1 .. Len(x) PROVE SubSeq(s, n, m)[i] = x[i]
  <2>1. SubSeq(s, n, m)[i] = s[n + i - 1] /\ s[n - 1 + i] = x[i]
    BY <1>1, <1>3 DEF IsAt
  <2>2. n + i - 1 = n - 1 + i
    BY <1>1
  <2> QED BY <2>1, <2>2
<1> QED BY <1>3, <1>4, SeqEqual

LEMMA Appended ==
  ASSUME NEW p \in Seq(Octet), NEW q \in Seq(Octet), NEW t, t = p \o q
  PROVE  /\ t \in Seq(Octet) /\ Len(t) = Len(p) + Len(q)
         /\ IsAt(t, Len(p) + 1, q)
BY Behind

-----------------------------------------------------------------------------
PartsAre(h, s, a, x, y) ==
  /\ h \in Seq(Octet) /\ s \in Seq(Octet) /\ Len(h) = 1 + Len(x) + Len(y)
  /\ s[1] = a
  /\ Len(x) >= 1 => s[2] = x[1]
  /\ \A i \in 1 .. Len(y) : s[1 + Len(x) + i] = y[i]

LEMMA TagParts ==
  ASSUME NEW a \in Octet, NEW x \in Seq(Octet), NEW y \in Seq(Octet), NEW r \in Seq(Octet),
         NEW h, h = <<a>> \o x \o y, NEW s, s = h \o r
  PROVE  PartsAre(h, s, a, x, y)
<1> HIDE DEF Octet
<1>1. <<a>> \in Seq(Octet) /\ Len(<<a>>) = 1 /\ <<a>>[1] = a
  BY SMT
<1>2. PICK u : u = <<a>>
  OBVIOUS
<1>3. PICK v : v = u \o x
  OBVIOUS
<1>4. /\ v \in Seq(Octet) /\ Len(v) = 1 + Len(x) /\ v[1] = a
      /\ \A i \in 1 .. Len(x) : v[1 + i] = x[i]
  BY <1>1, <1>2, <1>3, SMT
<1>5. h = v \o y
  BY <1>2, <1>3, Zenon
<1>6. /\ h \in Seq(Octet) /\ Len(h) = 1 + Len(x) + Len(y) /\ h[1] = a
      /\ \A i \in 1 .. Len(x) : h[1 + i] = x[i]
      /\ \A i \in 1 .. Len(y) : h[1 + Len(x) + i] = y[i]
  BY <1>4, <1>5, SMT
<1>7. s \in Seq(Octet) /\ \A i \in 1 .. Len(h) : s[i] = h[i]
  BY <1>6, SMT
<1>8. Len(x) >= 1 => s[2] = x[1]
  BY <1>6, <1>7, SMT
<1>9. \A i \in 1 .. Len(y) : s[1 + Len(x) + i] = y[i]
  BY <1>6, <1>7, SMT
<1>10. s[1] = a
  BY <1>6, <1>7, SMT
<1> QED BY <1>6, <1>7, <1>8, <1>9, <1>10, Zenon DEF PartsAre
(* The first octet of a tag. *)
FirstOctet(number, context, low) ==
  (IF context THEN 8 ELSE 0) + 16 * (IF number <= 14 THEN number ELSE 15) + low

FirstIs(a, number, context, low) ==
  /\ a \in Octet
  /\ number <= 14 => a \div 16 = number
  /\ number > 14 => a \div 16 = 15
  /\ (a \div 8) % 2 = 1 <=> context = TRUE
  /\ a % 8 = low

LEMMA FirstRead ==
  ASSUME NEW number \in Octet, NEW context \in BOOLEAN, NEW low \in 0 .. 7
  PROVE  FirstIs(FirstOctet(number, context, low), number, context, low)
<1>0. PICK a : a = FirstOctet(number, context, low)
  OBVIOUS
<1>1. PICK n \in 0 .. 15 : n = IF number <= 14 THEN number ELSE 15
  BY DEF Octet
<1>2. PICK c \in {0, 1} : c = IF context THEN 1 ELSE 0
  OBVIOUS
<1>3. a = 8 * c + 16 * n + low
  BY <1>0, <1>1, <1>2 DEF FirstOctet
<1>4. /\ 8 * c + 16 * n + low \in 0 .. 255
      /\ (8 * c + 16 * n + low) \div 16 = n
      /\ ((8 * c + 16 * n + low) \div 8) % 2 = c
      /\ (8 * c + 16 * n + low) % 8 = low
  BY SMT
<1>5. a \in 0 .. 255 /\ a \div 16 = n /\ (a \div 8) % 2 = c /\ a % 8 = low
  BY <1>3, <1>4, Zenon
<1>6. /\ a \in Octet
      /\ number <= 14 => a \div 16 = number
      /\ number > 14 => a \div 16 = 15
      /\ (a \div 8) % 2 = 1 <=> context = TRUE
      /\ a % 8 = low
  BY <1>1, <1>2, <1>5 DEF Octet
<1> QED BY <1>0, <1>6, Zenon DEF FirstIs


LEMMA TagFields ==
  ASSUME NEW s, NEW low, low = s[1] % 8,
         NEW n, n = IF s[1] \div 16 = 15 THEN 2 ELSE 1
  PROVE  /\ DecodeTag(s).number = IF n = 2 THEN s[2] ELSE s[1] \div 16
         /\ DecodeTag(s).context <=> (s[1] \div 8) % 2 = 1
         /\ DecodeTag(s).low = low
         /\ DecodeTag(s).len = IF low # 5 THEN n ELSE IF s[n + 1] = 254 THEN n + 3 ELSE n + 1
         /\ DecodeTag(s).lvt = IF low \in {6, 7} THEN 0
               ELSE IF low # 5 THEN low
               ELSE IF s[n + 1] = 254 THEN 256 * s[n + 2] + s[n + 3]
               ELSE s[n + 1]
<1>1. PICK number : number = IF n = 2 THEN s[2] ELSE s[1] \div 16
  OBVIOUS
<1>2. PICK context : context = ((s[1] \div 8) % 2 = 1)
  OBVIOUS
<1>3. PICK len : len = IF low # 5 THEN n ELSE IF s[n + 1] = 254 THEN n + 3 ELSE n + 1
  OBVIOUS
<1>4. PICK lvt : lvt = IF low \in {6, 7} THEN 0
               ELSE IF low # 5 THEN low
               ELSE IF s[n + 1] = 254 THEN 256 * s[n + 2] + s[n + 3]
               ELSE s[n + 1]
  OBVIOUS
<1>5. DecodeTag(s) = [number |-> number, context |-> context, low |-> low, len |-> len, lvt |-> lvt]
  BY <1>1, <1>2, <1>3, <1>4 DEF DecodeTag
<1>6. /\ DecodeTag(s).number = number /\ DecodeTag(s).context = context
      /\ DecodeTag(s).low = low /\ DecodeTag(s).len = len /\ DecodeTag(s).lvt = lvt
  BY <1>5
<1>7. DecodeTag(s).context <=> (s[1] \div 8) % 2 = 1
  BY <1>2, <1>6, Zenon
<1>8. DecodeTag(s).number = IF n = 2 THEN s[2] ELSE s[1] \div 16
  BY <1>1, <1>6
<1>9. DecodeTag(s).len = IF low # 5 THEN n ELSE IF s[n + 1] = 254 THEN n + 3 ELSE n + 1
  BY <1>3, <1>6
<1>10. DecodeTag(s).lvt = IF low \in {6, 7} THEN 0
               ELSE IF low # 5 THEN low
               ELSE IF s[n + 1] = 254 THEN 256 * s[n + 2] + s[n + 3]
               ELSE s[n + 1]
  BY <1>4, <1>6
<1> QED BY <1>6, <1>7, <1>8, <1>9, <1>10
MaxLvt == 65535

TagIs(t, number, context, low, len, lvt) ==
  /\ t.number = number /\ (t.context <=> context)
  /\ t.low = low /\ t.len = len /\ t.lvt = lvt

(* What stands behind the first octet for the length. *)
LengthOctets(lvt) ==
  IF lvt <= 4 THEN << >> ELSE IF lvt <= 253 THEN <<lvt>>
  ELSE <<254, lvt \div 256, lvt % 256>>

NumberOctets(number) == IF number <= 14 THEN << >> ELSE <<number>>

LEMMA EncodeParts ==
  ASSUME NEW number, NEW context, NEW lvt
  PROVE  EncodeTag(number, context, lvt) =
    <<FirstOctet(number, context, IF lvt <= 4 THEN lvt ELSE 5)>> \o NumberOctets(number) \o LengthOctets(lvt)
BY DEF EncodeTag, FirstOctet, NumberOctets, LengthOctets

LEMMA LengthRead ==
  ASSUME NEW lvt \in Nat, lvt <= MaxLvt, NEW y, y = LengthOctets(lvt)
  PROVE  /\ y \in Seq(Octet)
         /\ lvt <= 4 => Len(y) = 0
         /\ lvt > 4 /\ lvt <= 253 => Len(y) = 1 /\ y[1] = lvt
         /\ lvt > 253 => /\ Len(y) = 3 /\ y[1] = 254
                         /\ 256 * y[2] + y[3] = lvt
<1>1. lvt \div 256 \in Octet /\ lvt % 256 \in Octet
      /\ 256 * (lvt \div 256) + (lvt % 256) = lvt
  BY SMT DEF MaxLvt, Octet
<1>2. CASE lvt <= 4
  BY <1>2, SMT DEF LengthOctets
<1>3. CASE lvt > 4 /\ lvt <= 253
  <2>1. y = <<lvt>> /\ lvt \in Octet
    BY <1>3, SMT DEF LengthOctets, Octet
  <2>2. y \in Seq(Octet) /\ Len(y) = 1 /\ y[1] = lvt
    BY <2>1, SMT
  <2> QED BY <1>3, <2>2, SMT
<1>4. CASE lvt > 253
  <2>1. PICK p \in Octet : p = lvt \div 256
    BY <1>1
  <2>2. PICK q \in Octet : q = lvt % 256
    BY <1>1
  <2>3. 256 * p + q = lvt
    BY <1>1, <2>1, <2>2
  <2>4. y = <<254, p, q>>
    BY <1>4, <2>1, <2>2, SMT DEF LengthOctets
  <2>5. y \in Seq(Octet) /\ Len(y) = 3 /\ y[1] = 254 /\ y[2] = p /\ y[3] = q
    BY <2>4, SMT DEF Octet
  <2> QED BY <1>4, <2>3, <2>5, SMT
<1> QED BY <1>2, <1>3, <1>4, SMT

LEMMA NumberRead ==
  ASSUME NEW number \in Octet, NEW x, x = NumberOctets(number)
  PROVE  /\ x \in Seq(Octet)
         /\ number <= 14 => Len(x) = 0
         /\ number > 14 => Len(x) = 1 /\ x[1] = number
<1>1. CASE number <= 14
  BY <1>1, SMT DEF NumberOctets, Octet
<1>2. CASE number > 14
  <2>1. x = <<number>>
    BY <1>2, SMT DEF NumberOctets, Octet
  <2>2. x \in Seq(Octet) /\ Len(x) = 1 /\ x[1] = number
    BY <2>1, SMT
  <2> QED BY <1>2, <2>2, SMT DEF Octet
<1> QED BY <1>1, <1>2, SMT DEF Octet

LEMMA TagUnderstood ==
  ASSUME NEW number \in Octet, NEW context \in BOOLEAN, NEW lvt \in Nat, lvt <= MaxLvt,
         NEW r \in Seq(Octet), NEW h, h = EncodeTag(number, context, lvt)
  PROVE  /\ h \in Seq(Octet) /\ Len(h) >= 1
         /\ TagIs(DecodeTag(h \o r), number, context, IF lvt <= 4 THEN lvt ELSE 5, Len(h), lvt)
<1>1. PICK low \in 0 .. 5 : low = IF lvt <= 4 THEN lvt ELSE 5
  BY SMT
<1>2. PICK a : a = FirstOctet(number, context, low)
  OBVIOUS
<1>3. FirstIs(a, number, context, low)
  <2>1. low \in 0 .. 7
    BY SMT
  <2> QED BY <1>2, <2>1, FirstRead, Zenon
<1>4. PICK x : x = NumberOctets(number)
  OBVIOUS
<1>5. PICK y : y = LengthOctets(lvt)
  OBVIOUS
<1>6. PICK s : s = h \o r
  OBVIOUS
<1>7. h = <<a>> \o x \o y
  BY <1>1, <1>2, <1>4, <1>5, EncodeParts, Zenon
<1>8. /\ x \in Seq(Octet)
      /\ number <= 14 => Len(x) = 0
      /\ number > 14 => Len(x) = 1 /\ x[1] = number
  BY <1>4, NumberRead, Zenon
<1>9. /\ y \in Seq(Octet)
      /\ lvt <= 4 => Len(y) = 0
      /\ lvt > 4 /\ lvt <= 253 => Len(y) = 1 /\ y[1] = lvt
      /\ lvt > 253 => /\ Len(y) = 3 /\ y[1] = 254
                      /\ 256 * y[2] + y[3] = lvt
  BY <1>5, LengthRead
<1>10. PartsAre(h, s, a, x, y)
  <2>1. a \in Octet /\ x \in Seq(Octet) /\ y \in Seq(Octet)
    BY <1>3, <1>8, <1>9, Zenon DEF FirstIs
  <2> QED BY <2>1, <1>6, <1>7, TagParts, Zenon
<1>11. PICK n : n = 1 + Len(x)
  OBVIOUS
<1>12. /\ n \in {1, 2} /\ (number <= 14 => n = 1) /\ (number > 14 => n = 2)
  <2>1. number \in Nat
    BY SMT DEF Octet
  <2>2. PICK m : m = Len(x)
    OBVIOUS
  <2>3. (number <= 14 => m = 0) /\ (number > 14 => m = 1)
    BY <1>8, <2>2, Zenon
  <2> QED BY <1>11, <2>1, <2>2, <2>3, SMT
<1>13. s[1] = a /\ (n = 2 => s[2] = number)
  BY <1>8, <1>10, <1>11, <1>12, SMT DEF PartsAre, Octet
<1>14. n = IF s[1] \div 16 = 15 THEN 2 ELSE 1
  BY <1>3, <1>12, <1>13, SMT DEF FirstIs, Octet
<1>15. number = IF n = 2 THEN s[2] ELSE s[1] \div 16
  BY <1>3, <1>12, <1>13, SMT DEF FirstIs, Octet
<1>16. PICK z : z = Len(y)
  OBVIOUS
<1>17. /\ Len(h) = n + z
       /\ z >= 1 => s[n + 1] = y[1]
       /\ z >= 3 => s[n + 2] = y[2] /\ s[n + 3] = y[3]
  BY <1>8, <1>9, <1>10, <1>11, <1>16, SMT DEF PartsAre
<1>18. Len(h) = IF low # 5 THEN n ELSE IF s[n + 1] = 254 THEN n + 3 ELSE n + 1
  BY <1>1, <1>9, <1>12, <1>16, <1>17, SMT
<1>19. lvt = IF low \in {6, 7} THEN 0
             ELSE IF low # 5 THEN low
             ELSE IF s[n + 1] = 254 THEN 256 * s[n + 2] + s[n + 3]
             ELSE s[n + 1]
  <2>1. CASE lvt <= 4
    BY <2>1, <1>1, SMT
  <2>2. CASE lvt > 4 /\ lvt <= 253
    <3>1. low = 5 /\ s[n + 1] = lvt
      BY <2>2, <1>1, <1>9, <1>16, <1>17, SMT
    <3> QED BY <2>2, <3>1, SMT
  <2>3. CASE lvt > 253
    <3>1. low = 5 /\ s[n + 1] = 254 /\ s[n + 2] = y[2] /\ s[n + 3] = y[3]
      BY <2>3, <1>1, <1>9, <1>16, <1>17, SMT
    <3>2. lvt = 256 * s[n + 2] + s[n + 3]
      BY <2>3, <3>1, <1>9, Zenon
    <3> QED BY <3>1, <3>2, SMT
  <2> QED BY <2>1, <2>2, <2>3, SMT
<1>20. low = s[1] % 8 /\ ((s[1] \div 8) % 2 = 1 <=> context)
  BY <1>3, <1>13, Zenon DEF FirstIs
<1>21. /\ DecodeTag(s).number = number
       /\ DecodeTag(s).context <=> context
       /\ DecodeTag(s).low = low
       /\ DecodeTag(s).len = Len(h)
       /\ DecodeTag(s).lvt = lvt
  BY <1>14, <1>15, <1>18, <1>19, <1>20, TagFields
<1>22. Len(h) >= 1
  BY <1>9, <1>12, <1>16, <1>17, SMT
<1>23. h \in Seq(Octet)
  BY <1>10, Zenon DEF PartsAre
<1> QED BY <1>1, <1>6, <1>21, <1>22, <1>23, Zenon DEF TagIs

LEMMA ContentRead ==
  ASSUME NEW h \in Seq(Octet), NEW c \in Seq(Octet), NEW r \in Seq(Octet)
  PROVE  /\ (h \o c) \o r \in Seq(Octet)
         /\ SubSeq((h \o c) \o r, Len(h) + 1, Len(h) + Len(c)) = c
<1>1. PICK g : g = h \o c
  OBVIOUS
<1>2. PICK s : s = g \o r
  OBVIOUS
<1>3. PICK n \in Nat \ {0} : n = Len(h) + 1
  BY SMT
<1>4. g \in Seq(Octet) /\ IsAt(g, n, c)
  BY <1>1, <1>3, Appended, Zenon
<1>5. s \in Seq(Octet) /\ IsAt(s, n, c)
  BY <1>2, <1>4, Appended, StaysAt, Zenon
<1>6. PICK m : m = n - 1 + Len(c)
  OBVIOUS
<1>7. SubSeq(s, n, m) = c
  BY <1>5, <1>6, Whole
<1>8. m = Len(h) + Len(c)
  BY <1>3, <1>6, SMT
<1> QED BY <1>1, <1>2, <1>3, <1>5, <1>7, <1>8, Zenon

LEMMA BracketParts ==
  ASSUME NEW number, NEW low
  PROVE  Bracket(number, low) = <<FirstOctet(number, TRUE, low)>> \o NumberOctets(number)
BY DEF Bracket, FirstOctet, NumberOctets

LEMMA BracketUnderstood ==
  ASSUME NEW number \in Octet, NEW low \in {6, 7}, NEW r \in Seq(Octet),
         NEW h, h = Bracket(number, low)
  PROVE  /\ h \in Seq(Octet) /\ Len(h) >= 1
         /\ TagIs(DecodeTag(h \o r), number, TRUE, low, Len(h), 0)
<1>2. PICK a : a = FirstOctet(number, TRUE, low)
  OBVIOUS
<1>3. FirstIs(a, number, TRUE, low)
  <2>1. low \in 0 .. 7 /\ TRUE \in BOOLEAN
    BY SMT
  <2> QED BY <1>2, <2>1, FirstRead, Zenon
<1>4. PICK x : x = NumberOctets(number)
  OBVIOUS
<1>5. PICK y : y = << >>
  OBVIOUS
<1>6. PICK s : s = h \o r
  OBVIOUS
<1>8. /\ x \in Seq(Octet)
      /\ number <= 14 => Len(x) = 0
      /\ number > 14 => Len(x) = 1 /\ x[1] = number
  BY <1>4, NumberRead, Zenon
<1>9. y \in Seq(Octet) /\ Len(y) = 0
  BY <1>5, SMT
<1>7. h = <<a>> \o x \o y
  <2>1. h = <<a>> \o x
    BY <1>2, <1>4, BracketParts, Zenon
  <2>2. a \in Octet
    BY <1>3, Zenon DEF FirstIs
  <2>3. <<a>> \in Seq(Octet)
    BY <2>2, SMT
  <2>4. <<a>> \o x \in Seq(Octet)
    BY <2>3, <1>8, ConcatProperties, Zenon
  <2> QED BY <2>1, <2>4, <1>5, ConcatEmptySeq, Zenon
<1>10. PartsAre(h, s, a, x, y)
  <2>1. a \in Octet /\ x \in Seq(Octet) /\ y \in Seq(Octet)
    BY <1>3, <1>8, <1>9, Zenon DEF FirstIs
  <2> QED BY <2>1, <1>6, <1>7, TagParts, Zenon
<1>11. PICK n : n = 1 + Len(x)
  OBVIOUS
<1>12. /\ n \in {1, 2} /\ (number <= 14 => n = 1) /\ (number > 14 => n = 2)
  <2>1. number \in Nat
    BY SMT DEF Octet
  <2>2. PICK m : m = Len(x)
    OBVIOUS
  <2>3. (number <= 14 => m = 0) /\ (number > 14 => m = 1)
    BY <1>8, <2>2, Zenon
  <2> QED BY <1>11, <2>1, <2>2, <2>3, SMT
<1>13. s[1] = a /\ (n = 2 => s[2] = number)
  BY <1>8, <1>10, <1>11, <1>12, SMT DEF PartsAre, Octet
<1>14. n = IF s[1] \div 16 = 15 THEN 2 ELSE 1
  BY <1>3, <1>12, <1>13, SMT DEF FirstIs, Octet
<1>15. number = IF n = 2 THEN s[2] ELSE s[1] \div 16
  BY <1>3, <1>12, <1>13, SMT DEF FirstIs, Octet
<1>17. Len(h) = n
  BY <1>8, <1>9, <1>10, <1>11, SMT DEF PartsAre
<1>18. Len(h) = IF low # 5 THEN n ELSE IF s[n + 1] = 254 THEN n + 3 ELSE n + 1
  BY <1>17, SMT
<1>19. 0 = IF low \in {6, 7} THEN 0
             ELSE IF low # 5 THEN low
             ELSE IF s[n + 1] = 254 THEN 256 * s[n + 2] + s[n + 3]
             ELSE s[n + 1]
  BY SMT
<1>20. low = s[1] % 8 /\ ((s[1] \div 8) % 2 = 1 <=> TRUE)
  BY <1>3, <1>13, Zenon DEF FirstIs
<1>21. /\ DecodeTag(s).number = number
       /\ DecodeTag(s).context <=> TRUE
       /\ DecodeTag(s).low = low
       /\ DecodeTag(s).len = Len(h)
       /\ DecodeTag(s).lvt = 0
  BY <1>14, <1>15, <1>18, <1>19, <1>20, TagFields
<1>22. Len(h) >= 1
  BY <1>12, <1>17, SMT
<1>23. h \in Seq(Octet)
  BY <1>10, Zenon DEF PartsAre
<1> QED BY <1>6, <1>21, <1>22, <1>23, Zenon DEF TagIs
-----------------------------------------------------------------------------
ExpectedNumber(kind, tag) == IF tag # Application THEN tag ELSE DecoderTag[kind]

LEMMA DecoderNumbers ==
  /\ ApplicationTag["null"] = 0 /\ DecoderTag["null"] = 0
  /\ ApplicationTag["boolean"] = 1 /\ DecoderTag["boolean"] = 1
  /\ ApplicationTag["unsigned"] = 2 /\ DecoderTag["unsigned"] = 2
  /\ ApplicationTag["real"] = 4 /\ DecoderTag["real"] = 4
  /\ ApplicationTag["string"] = 7 /\ DecoderTag["string"] = 7
  /\ ApplicationTag["bits"] = 8 /\ DecoderTag["bits"] = 8
  /\ ApplicationTag["enum"] = 9 /\ DecoderTag["enum"] = 9
  /\ ApplicationTag["date"] = 10 /\ DecoderTag["date"] = 10
  /\ ApplicationTag["time"] = 11 /\ DecoderTag["time"] = 11
  /\ ApplicationTag["object"] = 12 /\ DecoderTag["object"] = 12
BY DEF ApplicationTag, DecoderTag

LEMMA DecoderOf ==
  ASSUME NEW tag, NEW s, NEW t, t = DecodeTag(s), NEW kind,
         t.number = ExpectedNumber(kind, tag)
  PROVE  /\ kind = "opening" => Decode(kind, tag, s) = DecodeBracket(t, 6)
         /\ kind = "closing" => Decode(kind, tag, s) = DecodeBracket(t, 7)
         /\ kind = "null" => Decode(kind, tag, s) = Taken(t, 0, << >>)
         /\ kind = "boolean" => Decode(kind, tag, s) = DecodeBoolean(t, s)
         /\ kind \in Integer => Decode(kind, tag, s) = DecodeInteger(t, tag, s)
         /\ kind = "real" => Decode(kind, tag, s) = DecodeReal(t, s)
         /\ kind \in {"date", "time"} => Decode(kind, tag, s) = DecodeClock(t, s)
         /\ kind = "object" => Decode(kind, tag, s) = DecodeObject(t, s)
         /\ kind = "string" => Decode(kind, tag, s) = DecodeString(t, s)
         /\ kind = "bits" => Decode(kind, tag, s) = DecodeBits(t, s)
BY DEF Decode, Integer, ExpectedNumber

(* The tag of a field whose content is written first takes one octet.      *)
TagFits(kind, tag) == kind \in ContentFirst => tag \in OneOctetTag \cup {Application}

LEMMA OneOctet ==
  ASSUME NEW kind, NEW tag, TagFits(kind, tag)
  PROVE  ~(kind \in ContentFirst /\ tag > 14)
<1>1. ASSUME kind \in ContentFirst, tag > 14
      PROVE  FALSE
  <2>1. tag \in OneOctetTag \cup {Application}
    BY <1>1, Zenon DEF TagFits
  <2> QED BY <1>1, <2>1, SMT DEF OneOctetTag, Application
<1> QED BY <1>1, Zenon

LEMMA EncoderOf ==
  ASSUME NEW f, NEW kind, NEW tag, NEW val, f = Field(kind, tag, val), TagFits(kind, tag)
  PROVE  /\ f.kind = kind /\ f.tag = tag /\ f.val = val
         /\ kind \notin {"opening", "closing"} /\ tag = Application =>
              Encode(f) = EncodeTag(ApplicationTag[kind], FALSE, LengthValueType(f)) \o EncodeContent(f)
         /\ kind \notin {"opening", "closing"} /\ tag # Application =>
              Encode(f) = EncodeTag(tag, TRUE, LengthValueType(f)) \o EncodeContent(f)
<1>1. f.kind = kind /\ f.tag = tag /\ f.val = val
  BY DEF Field
<1>2. PICK n : n = LengthValueType(f)
  OBVIOUS
<1>3. PICK c : c = EncodeContent(f)
  OBVIOUS
<1>4. PICK h : h = EncodeTag(ApplicationTag[kind], FALSE, n) \o c
  OBVIOUS
<1>5. PICK g : g = EncodeTag(tag, TRUE, n) \o c
  OBVIOUS
<1>6. PICK opening : opening = Bracket(tag, 6)
  OBVIOUS
<1>7. PICK closing : closing = Bracket(tag, 7)
  OBVIOUS
<1>8. PICK lost : lost = Overwritten(f)
  OBVIOUS
<1>9. PICK first \in BOOLEAN : first <=> kind \in ContentFirst /\ tag > 14
  OBVIOUS
<1>10. Encode(f) = CASE kind = "opening" -> opening
                     [] kind = "closing" -> closing
                     [] tag = Application -> h
                     [] first -> lost
                     [] OTHER -> g
  BY <1>1, <1>2, <1>3, <1>4, <1>5, <1>6, <1>7, <1>8, <1>9, Zenon DEF Encode
<1>11. ~first
  BY <1>9, OneOctet, Zenon
<1>12. /\ kind \notin {"opening", "closing"} /\ tag = Application => Encode(f) = h
       /\ kind \notin {"opening", "closing"} /\ tag # Application => Encode(f) = g
  BY <1>10, <1>11
<1> QED BY <1>1, <1>2, <1>3, <1>4, <1>5, <1>6, <1>7, <1>12, Zenon

LEMMA ContentOf ==
  ASSUME NEW f, NEW kind, NEW tag, NEW val, f = Field(kind, tag, val)
  PROVE  /\ kind \in {"null", "boolean"} => EncodeContent(f) = << >>
         /\ kind \in Integer => EncodeContent(f) = EncodeUnsigned(val)
         /\ kind \in FourOctets => EncodeContent(f) = val
         /\ kind = "object" => EncodeContent(f) = EncodeObjectId(val[1], val[2])
         /\ kind = "string" => EncodeContent(f) = EncodeString(val)
         /\ kind = "bits" => EncodeContent(f) = EncodeBits(val)
         /\ kind = "boolean" => LengthValueType(f) = val
         /\ kind = "string" => LengthValueType(f) = Len(val) + 1
         /\ kind \notin {"boolean", "string"} => LengthValueType(f) = Len(EncodeContent(f))
<1>1. f.kind = kind /\ f.val = val
  BY DEF Field
<1>2. kind \notin {"boolean", "string"} => LengthValueType(f) = Len(EncodeContent(f))
  BY <1>1 DEF LengthValueType
<1>3. /\ kind = "boolean" => LengthValueType(f) = val
      /\ kind = "string" => LengthValueType(f) = Len(val) + 1
  BY <1>1 DEF LengthValueType
<1> QED BY <1>1, <1>2, <1>3 DEF EncodeContent, Integer, FourOctets

Kinds == Integer \cup FourOctets \cup {"null", "object", "string", "bits"}

(* What the decoders find in the octets s of field e in front of others.   *)
Found(e, s, t, number, context, c) ==
  /\ e \in Seq(Octet) /\ Len(e) >= 1 /\ t = DecodeTag(s)
  /\ t.number = number /\ (t.context <=> context) /\ t.lvt = Len(c)
  /\ t.len + Len(c) = Len(e) /\ t.len \in Nat
  /\ s \in Seq(Octet) /\ t.len + Len(c) <= Len(s)
  /\ Content(t, Len(c), s) = c

LEMMA TaggedRead ==
  ASSUME NEW number \in Octet, NEW context \in BOOLEAN, NEW c \in Seq(Octet),
         Len(c) <= MaxLvt, NEW r \in Seq(Octet),
         NEW e, e = EncodeTag(number, context, Len(c)) \o c
  PROVE  \E t : Found(e, e \o r, t, number, context, c)
<1>1. PICK n \in Nat : n = Len(c)
  BY SMT
<1>2. PICK h : h = EncodeTag(number, context, n)
  OBVIOUS
<1>3. PICK q : q = c \o r
  OBVIOUS
<1>4. q \in Seq(Octet) /\ n <= MaxLvt
  BY <1>1, <1>3, ConcatProperties, Zenon
<1>5. /\ h \in Seq(Octet) /\ Len(h) >= 1
      /\ TagIs(DecodeTag(h \o q), number, context, IF n <= 4 THEN n ELSE 5, Len(h), n)
  BY <1>2, <1>4, TagUnderstood, Zenon
<1>6. PICK s : s = e \o r
  OBVIOUS
<1>7. e = h \o c
  BY <1>1, <1>2, Zenon
<1>8. s = h \o q
  <2>1. (h \o c) \o r = h \o (c \o r)
    BY <1>5
  <2> QED BY <1>3, <1>6, <1>7, <2>1, Zenon
<1>9. PICK t : t = DecodeTag(s)
  OBVIOUS
<1>10. t.number = number /\ (t.context <=> context) /\ t.len = Len(h) /\ t.lvt = n
  BY <1>5, <1>8, <1>9, Zenon DEF TagIs
<1>11. e \in Seq(Octet) /\ Len(e) = Len(h) + Len(c)
  BY <1>5, <1>7, ConcatProperties, Zenon
<1>12. SubSeq(s, Len(h) + 1, Len(h) + Len(c)) = c
  <2>1. SubSeq((h \o c) \o r, Len(h) + 1, Len(h) + Len(c)) = c
    BY <1>5, ContentRead, Zenon
  <2> QED BY <1>6, <1>7, <2>1, Zenon
<1>13. Content(t, Len(c), s) = c
  BY <1>10, <1>12, Zenon DEF Content
<1>14. Len(e) >= 1 /\ t.len \in Nat
  BY <1>1, <1>5, <1>10, <1>11, SMT
<1>15. s \in Seq(Octet) /\ t.len + Len(c) <= Len(s)
  <2>1. s \in Seq(Octet) /\ Len(s) = Len(e) + Len(r)
    BY <1>6, <1>11, ConcatProperties, Zenon
  <2>2. PICK l : l = t.len
    OBVIOUS
  <2>3. l + Len(c) = Len(e) /\ l \in Nat
    BY <1>10, <1>11, <1>14, <2>2, Zenon
  <2>4. l + Len(c) <= Len(s)
    BY <1>11, <2>1, <2>3, SMT
  <2> QED BY <2>1, <2>2, <2>4, Zenon
<1>16. Found(e, s, t, number, context, c)
  BY <1>1, <1>9, <1>10, <1>11, <1>13, <1>14, <1>15, Zenon DEF Found
<1> QED BY <1>6, <1>16, Zenon

(* A field whose content is behind a tag with its length.                  *)
Plain(kind, tag, val, f, c) ==
  /\ kind \in Kinds /\ tag \in Octet \cup {Application} /\ TagFits(kind, tag)
  /\ kind = "signed" => tag # Application
  /\ f = Field(kind, tag, val) /\ c \in Seq(Octet) /\ c = EncodeContent(f)
  /\ LengthValueType(f) = Len(c) /\ Len(c) <= MaxLvt

LEMMA FieldRead ==
  ASSUME NEW kind, NEW tag, NEW val, NEW f, NEW c, Plain(kind, tag, val, f, c), NEW r \in Seq(Octet)
  PROVE  \E t : Found(Encode(f), Encode(f) \o r, t, ExpectedNumber(kind, tag), tag # Application, c)
<1>0. /\ kind \in Kinds /\ tag \in Octet \cup {Application} /\ TagFits(kind, tag)
      /\ kind = "signed" => tag # Application
      /\ f = Field(kind, tag, val) /\ c \in Seq(Octet) /\ c = EncodeContent(f)
      /\ LengthValueType(f) = Len(c) /\ Len(c) <= MaxLvt
  BY Zenon DEF Plain
<1>1. kind \notin {"opening", "closing"}
  BY <1>0 DEF Kinds, Integer, FourOctets
<1>2. CASE tag = Application
  <2>1. /\ ApplicationTag[kind] \in Octet /\ DecoderTag[kind] = ApplicationTag[kind]
    <3>1. kind \in {"null", "unsigned", "real", "string", "bits", "enum", "date", "time", "object"}
      BY <1>0, <1>2 DEF Kinds, Integer, FourOctets
    <3>2. \A n \in 0 .. 12 : n \in Octet
      BY DEF Octet
    <3>3. 0 \in 0 .. 12 /\ 2 \in 0 .. 12 /\ 4 \in 0 .. 12 /\ 7 \in 0 .. 12 /\ 8 \in 0 .. 12
      BY SMT
    <3>4. 9 \in 0 .. 12 /\ 10 \in 0 .. 12 /\ 11 \in 0 .. 12 /\ 12 \in 0 .. 12
      BY SMT
    <3>5. CASE kind = "null"
      BY <3>2, <3>3, <3>4, <3>5, DecoderNumbers, Zenon
    <3>6. CASE kind = "unsigned"
      BY <3>2, <3>3, <3>4, <3>6, DecoderNumbers, Zenon
    <3>7. CASE kind = "real"
      BY <3>2, <3>3, <3>4, <3>7, DecoderNumbers, Zenon
    <3>8. CASE kind = "string"
      BY <3>2, <3>3, <3>4, <3>8, DecoderNumbers, Zenon
    <3>9. CASE kind = "bits"
      BY <3>2, <3>3, <3>4, <3>9, DecoderNumbers, Zenon
    <3>10. CASE kind = "enum"
      BY <3>2, <3>3, <3>4, <3>10, DecoderNumbers, Zenon
    <3>11. CASE kind = "date"
      BY <3>2, <3>3, <3>4, <3>11, DecoderNumbers, Zenon
    <3>12. CASE kind = "time"
      BY <3>2, <3>3, <3>4, <3>12, DecoderNumbers, Zenon
    <3>13. CASE kind = "object"
      BY <3>2, <3>3, <3>4, <3>13, DecoderNumbers, Zenon
    <3> QED BY <3>1, <3>5, <3>6, <3>7, <3>8, <3>9, <3>10, <3>11, <3>12, <3>13, Zenon
  <2>2. PICK number \in Octet : number = ApplicationTag[kind]
    BY <2>1
  <2>3. PICK e : e = Encode(f)
    OBVIOUS
  <2>4. e = EncodeTag(number, FALSE, Len(c)) \o c
    BY <1>0, <1>1, <1>2, <2>2, <2>3, EncoderOf, Zenon
  <2>5. FALSE \in BOOLEAN
    OBVIOUS
  <2>6. \E t : Found(e, e \o r, t, number, FALSE, c)
    BY <1>0, <2>4, <2>5, TaggedRead, Zenon
  <2>7. number = ExpectedNumber(kind, tag)
    BY <1>2, <2>1, <2>2, Zenon DEF ExpectedNumber
  <2>8. (tag # Application) = FALSE
    BY <1>2, Zenon
  <2> QED BY <2>3, <2>6, <2>7, <2>8, Zenon
<1>3. CASE tag # Application
  <2>1. tag \in Octet
    BY <1>0, <1>3
  <2>3. PICK e : e = Encode(f)
    OBVIOUS
  <2>4. e = EncodeTag(tag, TRUE, Len(c)) \o c
    <3>1. e = EncodeTag(tag, TRUE, LengthValueType(f)) \o EncodeContent(f)
      BY <1>0, <1>1, <1>3, <2>3, EncoderOf
    <3> QED BY <1>0, <3>1, Zenon
  <2>5. TRUE \in BOOLEAN
    OBVIOUS
  <2>6. \E t : Found(e, e \o r, t, tag, TRUE, c)
    BY <1>0, <2>1, <2>4, <2>5, TaggedRead, Zenon
  <2>7. tag = ExpectedNumber(kind, tag)
    BY <1>3, Zenon DEF ExpectedNumber
  <2>8. (tag # Application) = TRUE
    BY <1>3, Zenon
  <2> QED BY <2>3, <2>6, <2>7, <2>8, Zenon
<1> QED BY <1>2, <1>3, Zenon

(* Decoding the octets of f in front of others takes exactly these and     *)
(* yields the value.                                                       *)
ComesBack(f, r) ==
  /\ Encode(f) \in Seq(Octet) /\ Len(Encode(f)) >= 1
  /\ Decode(f.kind, f.tag, Encode(f) \o r) = [len |-> Len(Encode(f)), val |-> f.val]

(* The decoder takes all of the content and returns the value.             *)
Seen(kind, tag, c, t, s) ==
  /\ t = DecodeTag(s) /\ t.number = ExpectedNumber(kind, tag)
  /\ (t.context <=> tag # Application) /\ t.lvt = Len(c)
  /\ t.len \in Nat /\ s \in Seq(Octet) /\ t.len + Len(c) <= Len(s)
  /\ Content(t, Len(c), s) = c

ReadsAll(kind, tag, val, c) ==
  \A t, s : Seen(kind, tag, c, t, s) => Decode(kind, tag, s) = Taken(t, Len(c), val)

LEMMA AllTaken ==
  ASSUME NEW kind, NEW tag, NEW val, NEW f, NEW c, Plain(kind, tag, val, f, c),
         ReadsAll(kind, tag, val, c), NEW r \in Seq(Octet)
  PROVE  ComesBack(f, r)
<1>1. PICK t : Found(Encode(f), Encode(f) \o r, t, ExpectedNumber(kind, tag), tag # Application, c)
  BY FieldRead, Zenon
<1>2. PICK s : s = Encode(f) \o r
  OBVIOUS
<1>3. PICK e : e = Encode(f)
  OBVIOUS
<1>4. /\ e \in Seq(Octet) /\ Len(e) >= 1 /\ t = DecodeTag(s)
      /\ t.number = ExpectedNumber(kind, tag) /\ (t.context <=> tag # Application) /\ t.lvt = Len(c)
      /\ t.len + Len(c) = Len(e) /\ t.len \in Nat
      /\ s \in Seq(Octet) /\ t.len + Len(c) <= Len(s)
      /\ Content(t, Len(c), s) = c
  BY <1>1, <1>2, <1>3, Zenon DEF Found
<1>5. Seen(kind, tag, c, t, s)
  BY <1>4, Zenon DEF Seen
<1>6. Decode(kind, tag, s) = Taken(t, Len(c), val)
  BY <1>5, Zenon DEF ReadsAll
<1>7. Decode(kind, tag, s) = [len |-> Len(e), val |-> val]
  BY <1>4, <1>6, Zenon DEF Taken
<1>8. f.kind = kind /\ f.tag = tag /\ f.val = val
  BY DEF Plain, Field
<1> QED BY <1>2, <1>3, <1>4, <1>7, <1>8, Zenon DEF ComesBack

LEMMA NullUnderstood ==
  ASSUME NEW tag \in {Application}, NEW f, f = Field("null", tag, << >>),
         NEW r \in Seq(Octet)
  PROVE  ComesBack(f, r)
<1>1. PICK kind \in Kinds : kind = "null"
  BY DEF Kinds
<1>2. PICK c : c = << >>
  OBVIOUS
<1>3. c \in Seq(Octet) /\ Len(c) = 0 /\ Len(c) <= MaxLvt
  BY <1>2 DEF MaxLvt
<1>4. c = EncodeContent(f) /\ LengthValueType(f) = Len(c)
  BY <1>1, <1>2, ContentOf
<1>5. ASSUME NEW t, NEW s, Seen(kind, tag, c, t, s)
      PROVE  Decode(kind, tag, s) = Taken(t, Len(c), << >>)
  BY <1>1, <1>3, <1>5, DecoderOf DEF Seen
<1>19. tag \in Octet \cup {Application} /\ TagFits(kind, tag)
  BY DEF TagFits
<1>20. Plain(kind, tag, << >>, f, c)
  BY <1>1, <1>3, <1>4, <1>19, Zenon DEF Plain
<1>21. ReadsAll(kind, tag, << >>, c)
  BY <1>5, Zenon DEF ReadsAll
<1> QED BY <1>20, <1>21, AllTaken, Zenon

LEMMA UnsignedForm ==
  ASSUME NEW w \in Word, w[1] = 0
  PROVE  EncodeUnsigned(w) \in Seq(Octet) /\ Len(EncodeUnsigned(w)) <= 3
<1>1. /\ w[2] \in Octet /\ w[3] \in Octet /\ w[4] \in Octet
  BY WordOctets
<1>2. CASE w[2] # 0
  <2>1. EncodeUnsigned(w) = <<w[2], w[3], w[4]>>
    BY <1>2, Zenon DEF EncodeUnsigned
  <2> QED BY <1>1, <2>1
<1>3. CASE w[2] = 0 /\ w[3] # 0
  <2>1. EncodeUnsigned(w) = <<w[3], w[4]>>
    BY <1>3, Zenon DEF EncodeUnsigned
  <2> QED BY <1>1, <2>1
<1>4. CASE w[2] = 0 /\ w[3] = 0
  <2>1. EncodeUnsigned(w) = <<w[4]>>
    BY <1>4, Zenon DEF EncodeUnsigned
  <2> QED BY <1>1, <2>1
<1> QED BY <1>2, <1>3, <1>4, Zenon

LEMMA OneOctetFits ==
  ASSUME NEW kind, NEW tag \in OneOctetTag \cup {Application}
  PROVE  tag \in Octet \cup {Application} /\ TagFits(kind, tag)
<1>1. \A n \in OneOctetTag : n \in Octet
  BY SMT DEF OneOctetTag, Octet
<1> QED BY <1>1, Zenon DEF TagFits

LEMMA IntegerUnderstood ==
  ASSUME NEW kind \in Integer, NEW tag \in OneOctetTag \cup {Application},
         kind = "signed" => tag # Application,
         NEW val \in Word, val[1] = 0, NEW f, f = Field(kind, tag, val),
         NEW r \in Seq(Octet)
  PROVE  ComesBack(f, r)
<1>1. kind \in Kinds
  BY DEF Kinds
<1>2. PICK c : c = EncodeUnsigned(val)
  OBVIOUS
<1>3. c \in Seq(Octet) /\ Len(c) <= 3
  BY <1>2, UnsignedForm
<1>4. Len(c) <= MaxLvt
  BY <1>3 DEF MaxLvt
<1>5. c = EncodeContent(f) /\ LengthValueType(f) = Len(c)
  BY <1>2, ContentOf DEF Integer
<1>6. ASSUME NEW t, NEW s, Seen(kind, tag, c, t, s)
      PROVE  Decode(kind, tag, s) = Taken(t, Len(c), val)
  <2>1. Decode(kind, tag, s) = DecodeInteger(t, tag, s)
    BY <1>6, DecoderOf DEF Seen
  <2>2. DecodeInteger(t, tag, s) = Taken(t, t.lvt, DecodeUnsigned(Content(t, t.lvt, s)))
    BY <1>6, Zenon DEF DecodeInteger, Seen
  <2> QED BY <2>1, <2>2, <1>2, <1>6, UnsignedUnderstood, Zenon DEF Seen
<1>19. tag \in Octet \cup {Application} /\ TagFits(kind, tag)
  BY OneOctetFits
<1>20. Plain(kind, tag, val, f, c)
  BY <1>1, <1>3, <1>4, <1>5, <1>19, Zenon DEF Plain
<1>21. ReadsAll(kind, tag, val, c)
  BY <1>6, Zenon DEF ReadsAll
<1> QED BY <1>20, <1>21, AllTaken, Zenon

LEMMA WordSeq ==
  ASSUME NEW w \in Word
  PROVE  w \in Seq(Octet) /\ Len(w) = 4
<1>1. /\ w[1] \in Octet /\ w[2] \in Octet /\ w[3] \in Octet /\ w[4] \in Octet
      /\ w = <<w[1], w[2], w[3], w[4]>>
  BY WordOctets, Zenon
<1>2. PICK a \in Octet : a = w[1]
  BY <1>1
<1>3. PICK b \in Octet : b = w[2]
  BY <1>1
<1>4. PICK c \in Octet : c = w[3]
  BY <1>1
<1>5. PICK d \in Octet : d = w[4]
  BY <1>1
<1>6. w = <<a, b, c, d>>
  BY <1>1, <1>2, <1>3, <1>4, <1>5, Zenon
<1> QED BY <1>6, SMT

LEMMA FourOctetsUnderstood ==
  ASSUME NEW kind \in FourOctets, NEW tag \in {Application},
         NEW val \in Word, NEW f, f = Field(kind, tag, val),
         NEW r \in Seq(Octet)
  PROVE  ComesBack(f, r)
<1>1. kind \in Kinds /\ kind # "signed"
  BY DEF Kinds, FourOctets
<1>2. val \in Seq(Octet) /\ Len(val) = 4
  BY WordSeq
<1>3. Len(val) <= MaxLvt
  BY <1>2 DEF MaxLvt
<1>4. val = EncodeContent(f) /\ LengthValueType(f) = Len(val)
  BY ContentOf DEF FourOctets
<1>5. ASSUME NEW t, NEW s, Seen(kind, tag, val, t, s)
      PROVE  Decode(kind, tag, s) = Taken(t, Len(val), val)
  <2>1. CASE kind = "real"
    <3>1. Decode(kind, tag, s) = DecodeReal(t, s)
      BY <2>1, <1>5, DecoderOf DEF Seen
    <3> QED BY <3>1, <2>1, <1>2, <1>5, Zenon DEF DecodeReal, Seen
  <2>2. CASE kind \in {"date", "time"}
    <3>1. Decode(kind, tag, s) = DecodeClock(t, s)
      BY <2>2, <1>5, DecoderOf DEF Seen
    <3> QED BY <3>1, <1>2, <1>5, Zenon DEF DecodeClock, Seen
  <2> QED BY <2>1, <2>2 DEF FourOctets
<1>19. tag \in Octet \cup {Application} /\ TagFits(kind, tag)
  BY DEF TagFits
<1>20. Plain(kind, tag, val, f, val)
  BY <1>1, <1>2, <1>3, <1>4, <1>19, Zenon DEF Plain
<1>21. ReadsAll(kind, tag, val, val)
  BY <1>5, Zenon DEF ReadsAll
<1> QED BY <1>20, <1>21, AllTaken, Zenon

(* Ten bits of type and 22 of instance.                                    *)
IsObjectId(type, instance) ==
  type \in Nat /\ instance \in Nat /\ type < 1024 /\ instance < 4194304

LEMMA ObjectUnderstood ==
  ASSUME NEW type, NEW instance, IsObjectId(type, instance),
         NEW tag \in OneOctetTag \cup {Application},
         NEW f, f = Field("object", tag, <<type, instance>>), NEW r \in Seq(Octet)
  PROVE  ComesBack(f, r)
<1>1. PICK kind \in Kinds : kind = "object"
  BY DEF Kinds
<1>2. PICK val : val = <<type, instance>>
  OBVIOUS
<1>3. PICK c : c = EncodeObjectId(type, instance)
  OBVIOUS
<1>4. c \in Word /\ DecodeObjectId(c) = val
  <2>1. /\ EncodeObjectId(type, instance) \in Word
        /\ DecodeObjectId(EncodeObjectId(type, instance)) = <<type, instance>>
    BY ObjectIdUnderstood, SMT DEF IsObjectId
  <2> QED BY <1>2, <1>3, <2>1, Zenon
<1>5. c \in Seq(Octet) /\ Len(c) = 4
  BY <1>4, WordSeq, Zenon
<1>6. Len(c) <= MaxLvt
  BY <1>5 DEF MaxLvt
<1>7. val[1] = type /\ val[2] = instance
  BY <1>2
<1>8. f = Field(kind, tag, val)
  BY <1>1, <1>2, Zenon
<1>9. c = EncodeContent(f) /\ LengthValueType(f) = Len(c)
  BY <1>1, <1>3, <1>7, <1>8, ContentOf
<1>10. ASSUME NEW t, NEW s, Seen(kind, tag, c, t, s)
      PROVE  Decode(kind, tag, s) = Taken(t, Len(c), val)
  <2>1. Decode(kind, tag, s) = DecodeObject(t, s)
    BY <1>1, <1>10, DecoderOf DEF Seen
  <2> QED BY <2>1, <1>4, <1>5, <1>10, Zenon DEF DecodeObject, Seen
<1>19. tag \in Octet \cup {Application} /\ TagFits(kind, tag)
  BY OneOctetFits
<1>20. Plain(kind, tag, val, f, c)
  BY <1>1, <1>5, <1>6, <1>8, <1>9, <1>19, Zenon DEF Plain
<1>21. ReadsAll(kind, tag, val, c)
  BY <1>10, Zenon DEF ReadsAll
<1> QED BY <1>20, <1>21, AllTaken, Zenon

(* Behind a tag number above 14 the first octet of the content is lost     *)
(* (encode_context_object_id, bacdcode.cpp:647, and encode_tag, :230): the *)
(* decoder takes an object made of the other three and of an octet that    *)
(* nobody wrote, and refuses nothing.                                      *)
THEOREM ObjectShifted ==
  ASSUME NEW type, NEW instance, IsObjectId(type, instance),
         NEW tag \in Octet, tag > 14,
         NEW f, f = Field("object", tag, <<type, instance>>), NEW r \in Seq(Octet),
         NEW c, c = EncodeObjectId(type, instance)
  PROVE  Decode("object", tag, Encode(f) \o r) =
           [len |-> Len(Encode(f)), val |-> DecodeObjectId(<<c[2], c[3], c[4], Stale>>)]
<1>1. PICK kind : kind = "object"
  OBVIOUS
<1>2. PICK val : val = <<type, instance>>
  OBVIOUS
<1>3. f = Field(kind, tag, val) /\ val[1] = type /\ val[2] = instance
  BY <1>1, <1>2
<1>4. c \in Word
  BY ObjectIdUnderstood, SMT DEF IsObjectId
<1>5. c = EncodeContent(f) /\ LengthValueType(f) = Len(c)
  BY <1>1, <1>3, ContentOf
<1>6. c \in Seq(Octet) /\ Len(c) = 4
  BY <1>4, WordSeq, Zenon
<1>7. PICK d : d = <<c[2], c[3], c[4], Stale>>
  OBVIOUS
<1>8. /\ d \in Seq(Octet) /\ Len(d) = 4 /\ Len(d) <= MaxLvt
      /\ d = Tail(c) \o <<Stale>>
      /\ Tail(c) \in Seq(Octet) /\ <<Stale>> \in Seq(Octet)
  <2>1. /\ c[2] \in Octet /\ c[3] \in Octet /\ c[4] \in Octet
        /\ c = <<c[1], c[2], c[3], c[4]>> /\ c[1] \in Octet
    BY <1>4, WordOctets, Zenon
  <2>2. PICK c1 \in Octet : c1 = c[1]
    BY <2>1
  <2>3. PICK c2 \in Octet : c2 = c[2]
    BY <2>1
  <2>4. PICK c3 \in Octet : c3 = c[3]
    BY <2>1
  <2>5. PICK c4 \in Octet : c4 = c[4]
    BY <2>1
  <2>6. PICK x \in Octet : x = Stale
    BY StaleAssumption
  <2>7. d = <<c2, c3, c4, x>> /\ c = <<c1, c2, c3, c4>>
    BY <1>7, <2>1, <2>2, <2>3, <2>4, <2>5, <2>6, Zenon
  <2>8. Tail(c) \o <<x>> = d /\ Tail(c) \in Seq(Octet) /\ <<x>> \in Seq(Octet)
    <3>1. PICK u : u = Tail(c)
      OBVIOUS
    <3>2. u = <<c2, c3, c4>>
      BY <2>7, <3>1
    <3>3. u \in Seq(Octet) /\ <<x>> \in Seq(Octet)
      BY <3>2
    <3>4. u \o <<x>> = <<c2, c3, c4, x>>
      <4>1. u \o <<x>> = Append(u, x)
        BY <3>3, AppendIsConcat
      <4>2. PICK p : p = Append(u, x)
        OBVIOUS
      <4>3. Len(u) = 3 /\ u[1] = c2 /\ u[2] = c3 /\ u[3] = c4
        BY <3>2
      <4>4. /\ p \in Seq(Octet) /\ Len(p) = Len(u) + 1 /\ p[Len(u) + 1] = x
            /\ \A i \in 1 .. Len(u) : p[i] = u[i]
        BY <3>3, <4>2, AppendProperties, Zenon
      <4>5. Len(p) = 4 /\ p[1] = c2 /\ p[2] = c3 /\ p[3] = c4 /\ p[4] = x
        BY <4>3, <4>4
      <4>6. PICK q : q = <<c2, c3, c4, x>>
        OBVIOUS
      <4>7. q \in Seq(Octet) /\ Len(q) = 4 /\ q[1] = c2 /\ q[2] = c3 /\ q[3] = c4 /\ q[4] = x
        BY <4>6
      <4>8. Len(p) = Len(q) /\ \A i \in 1 .. Len(p) : p[i] = q[i]
        BY <4>5, <4>7
      <4>9. p = q
        BY <4>4, <4>7, <4>8, SeqEqual, Zenon
      <4> QED BY <4>1, <4>2, <4>6, <4>9, Zenon
    <3> QED BY <2>7, <3>1, <3>3, <3>4, Zenon
  <2>9. Len(d) = 4 /\ d \in Seq(Octet)
    BY <2>7, SMT
  <2> QED BY <2>6, <2>7, <2>8, <2>9 DEF MaxLvt
<1>9. PICK e : e = Encode(f)
  OBVIOUS
<1>10. e = EncodeTag(tag, TRUE, Len(d)) \o d
  <2>1. f.kind = kind /\ f.tag = tag
    BY <1>3 DEF Field
  <2>2. kind \notin {"opening", "closing"} /\ kind \in ContentFirst
    BY <1>1 DEF ContentFirst
  <2>3. tag # Application
    BY SMT DEF Octet, Application
  <2>4. PICK first \in BOOLEAN : first <=> kind \in ContentFirst /\ tag > 14
    OBVIOUS
  <2>5. PICK lost : lost = Overwritten(f)
    OBVIOUS
  <2>6. PICK x : x = Bracket(tag, 6)
    OBVIOUS
  <2>7. PICK y : y = Bracket(tag, 7)
    OBVIOUS
  <2>8. PICK h : h = EncodeTag(ApplicationTag[kind], FALSE, LengthValueType(f)) \o EncodeContent(f)
    OBVIOUS
  <2>9. PICK g : g = EncodeTag(tag, TRUE, LengthValueType(f)) \o EncodeContent(f)
    OBVIOUS
  <2>10. Encode(f) = CASE kind = "opening" -> x
                       [] kind = "closing" -> y
                       [] tag = Application -> h
                       [] first -> lost
                       [] OTHER -> g
    BY <2>1, <2>4, <2>5, <2>6, <2>7, <2>8, <2>9, Zenon DEF Encode
  <2>11. Encode(f) = lost
    BY <2>2, <2>3, <2>4, <2>10
  <2>12. Overwritten(f) = EncodeTag(tag, TRUE, Len(c)) \o Tail(c) \o <<Stale>>
    BY <1>5, <2>1, Zenon DEF Overwritten
  <2>13. PICK t : t = EncodeTag(tag, TRUE, Len(d))
    OBVIOUS
  <2>14. t \in Seq(Octet)
    <3>1. TRUE \in BOOLEAN /\ Len(d) \in Nat
      BY <1>8
    <3> QED BY <1>8, <2>13, <3>1, TagUnderstood
  <2>15. PICK v \in Seq(Octet) : v = Tail(c)
    BY <1>8
  <2>16. PICK z \in Seq(Octet) : z = <<Stale>>
    BY <1>8
  <2>17. (t \o v) \o z = t \o (v \o z)
    BY <2>14, SMT
  <2>18. Len(c) = Len(d)
    BY <1>6, <1>8, Zenon
  <2> QED BY <1>8, <1>9, <2>5, <2>11, <2>12, <2>13, <2>15, <2>16, <2>17, <2>18, Zenon
<1>11. TRUE \in BOOLEAN
  OBVIOUS
<1>12. PICK t : Found(e, e \o r, t, tag, TRUE, d)
  BY <1>8, <1>10, <1>11, TaggedRead, Zenon
<1>13. PICK s : s = e \o r
  OBVIOUS
<1>14. /\ t = DecodeTag(s) /\ t.number = tag /\ t.len + Len(d) = Len(e)
       /\ Content(t, Len(d), s) = d
  BY <1>12, <1>13, Zenon DEF Found
<1>15. t.number = ExpectedNumber(kind, tag)
  <2>1. tag # Application
    BY SMT DEF Octet, Application
  <2> QED BY <1>14, <2>1, Zenon DEF ExpectedNumber
<1>16. Decode(kind, tag, s) = DecodeObject(t, s)
  BY <1>1, <1>14, <1>15, DecoderOf
<1>17. DecodeObject(t, s) = [len |-> Len(e), val |-> DecodeObjectId(d)]
  BY <1>8, <1>14, Zenon DEF DecodeObject, Taken
<1> QED BY <1>1, <1>7, <1>9, <1>13, <1>16, <1>17, Zenon

LEMMA FirstOfContent ==
  ASSUME NEW s \in Seq(Octet), NEW l \in Nat, NEW c \in Seq(Octet), Len(c) >= 1,
         l + Len(c) <= Len(s), SubSeq(s, l + 1, l + Len(c)) = c
  PROVE  SubSeq(s, l + 1, l + 1) = <<c[1]>>
<1>1. PICK n \in Nat : n = Len(c)
  BY SMT
<1>2. SubSeq(s, l + 1, l + n)[1] = s[l + 1]
  BY <1>1, SMT
<1>3. s[l + 1] = c[1]
  BY <1>1, <1>2, Zenon
<1>4. PICK m \in Int : m = l + 1
  BY SMT
<1>5. s[m] \in Octet /\ m \in 1 .. Len(s)
  BY <1>1, <1>4, SMT
<1>6. PICK z : z = SubSeq(s, m, m)
  OBVIOUS
<1>7. z \in Seq(Octet) /\ Len(z) = 1 /\ z[1] = s[m]
  <2>1. SubSeq(s, m, m) = [i \in 1 .. 1 |-> s[i + m - 1]]
    BY <1>4, <1>5, SMT
  <2>2. \A i \in 1 .. 1 : s[i + m - 1] = s[m]
    BY <1>4, SMT
  <2> QED BY <1>5, <1>6, <2>1, <2>2, SMT
<1>8. PICK y : y = <<s[m]>>
  OBVIOUS
<1>9. y \in Seq(Octet) /\ Len(y) = 1 /\ y[1] = s[m]
  BY <1>5, <1>8, SMT
<1>10. \A i \in 1 .. Len(z) : z[i] = y[i]
  BY <1>7, <1>9, SMT
<1>11. Len(z) = Len(y)
  BY <1>7, <1>9, Zenon
<1>12. z = y
  BY <1>7, <1>9, <1>10, <1>11, SeqEqual, Zenon
<1> QED BY <1>3, <1>4, <1>6, <1>8, <1>12, Zenon

LEMMA StringUnderstood ==
  ASSUME NEW val \in Seq(Octet), Len(val) <= MaxApduLen - 6, NEW tag \in Octet \cup {Application},
         NEW f, f = Field("string", tag, val), NEW r \in Seq(Octet)
  PROVE  ComesBack(f, r)
<1>1. PICK kind \in Kinds : kind = "string"
  BY DEF Kinds
<1>2. PICK c : c = <<0>> \o val
  OBVIOUS
<1>3. /\ c \in Seq(Octet) /\ Len(c) = Len(val) + 1 /\ c[1] = 0
  <2>1. 0 \in Octet
    BY SMT DEF Octet
  <2>2. <<0>> \in Seq(Octet) /\ Len(<<0>>) = 1
    BY <2>1, SMT
  <2> QED BY <1>2, <2>2, SMT
<1>4. Tail(c) = val
  BY <1>2, SMT
<1>5. Len(c) <= MaxLvt /\ Len(c) >= 1
  BY <1>3, SMT DEF MaxLvt, MaxApduLen
<1>6. EncodeString(val) = c
  <2>1. SubSeq(val, 1, Len(val)) = val
    BY SubSeqFull, Zenon
  <2> QED BY <1>2, <2>1, Zenon DEF EncodeString
<1>7. f = Field(kind, tag, val)
  BY <1>1, Zenon
<1>8. c = EncodeContent(f) /\ LengthValueType(f) = Len(c)
  BY <1>1, <1>3, <1>6, <1>7, ContentOf
<1>9. ASSUME NEW t, NEW s, Seen(kind, tag, c, t, s)
      PROVE  Decode(kind, tag, s) = Taken(t, Len(c), val)
  <2>1. Decode(kind, tag, s) = DecodeString(t, s)
    BY <1>1, <1>9, DecoderOf DEF Seen
  <2>2. /\ t.lvt = Len(c) /\ Content(t, Len(c), s) = c
        /\ t.len \in Nat /\ s \in Seq(Octet) /\ t.len + Len(c) <= Len(s)
    BY <1>9, Zenon DEF Seen
  <2>3. PICK l : l = t.len
    OBVIOUS
  <2>4. SubSeq(s, l + 1, l + Len(c)) = c
    BY <2>2, <2>3, Zenon DEF Content
  <2>5. l \in Nat /\ l + Len(c) <= Len(s)
    BY <2>2, <2>3, Zenon
  <2>6. SubSeq(s, l + 1, l + 1) = <<c[1]>>
    BY <1>3, <1>5, <2>2, <2>4, <2>5, FirstOfContent
  <2>7. Content(t, 1, s) = <<0>>
    BY <1>3, <2>3, <2>6, Zenon DEF Content
  <2> QED BY <2>1, <2>2, <2>7, <1>4, Zenon DEF DecodeString
<1>19. TagFits(kind, tag)
  BY <1>1 DEF TagFits, ContentFirst, Integer
<1>20. Plain(kind, tag, val, f, c)
  BY <1>1, <1>3, <1>5, <1>7, <1>8, <1>19 DEF Plain
<1>21. ReadsAll(kind, tag, val, c)
  BY <1>9, Zenon DEF ReadsAll
<1> QED BY <1>20, <1>21, AllTaken, Zenon

LEMMA BracketFieldUnderstood ==
  ASSUME NEW kind \in {"opening", "closing"}, NEW tag \in Octet,
         NEW f, f = Field(kind, tag, << >>), NEW r \in Seq(Octet)
  PROVE  ComesBack(f, r)
<1>1. PICK low \in {6, 7} : low = IF kind = "opening" THEN 6 ELSE 7
  OBVIOUS
<1>2. tag # Application
  BY SMT DEF Octet, Application
<1>3. PICK e : e = Bracket(tag, low)
  OBVIOUS
<1>0. f.kind = kind /\ f.tag = tag
  BY DEF Field
<1>4. Encode(f) = e
  <2>1. ~(kind \in ContentFirst /\ tag > 14)
    BY DEF ContentFirst, Integer
  <2>2. PICK x : x = Bracket(tag, 6)
    OBVIOUS
  <2>3. PICK y : y = Bracket(tag, 7)
    OBVIOUS
  <2>5. PICK lost : lost = Overwritten(f)
    OBVIOUS
  <2>6. PICK g : g = EncodeTag(tag, TRUE, LengthValueType(f)) \o EncodeContent(f)
    OBVIOUS
  <2>7. PICK h : h = EncodeTag(ApplicationTag[kind], FALSE, LengthValueType(f)) \o EncodeContent(f)
    OBVIOUS
  <2>8. PICK first \in BOOLEAN : first <=> kind \in ContentFirst /\ tag > 14
    OBVIOUS
  <2>9. Encode(f) = CASE kind = "opening" -> x
                      [] kind = "closing" -> y
                      [] tag = Application -> h
                      [] first -> lost
                      [] OTHER -> g
    BY <1>0, <2>2, <2>3, <2>5, <2>6, <2>7, <2>8, Zenon DEF Encode
  <2>10. ~first
    BY <2>1, <2>8, Zenon
  <2>11. Encode(f) = IF kind = "opening" THEN x ELSE y
    BY <1>2, <2>9, <2>10
  <2>12. CASE kind = "opening"
    <3>1. low = 6
      BY <2>12, <1>1
    <3> QED BY <3>1, <1>3, <2>2, <2>11, <2>12, Zenon
  <2>13. CASE kind = "closing"
    <3>1. low = 7 /\ kind # "opening"
      BY <2>13, <1>1
    <3> QED BY <3>1, <1>3, <2>3, <2>11, Zenon
  <2> QED BY <2>12, <2>13, Zenon
<1>5. PICK s : s = e \o r
  OBVIOUS
<1>6. e \in Seq(Octet) /\ Len(e) >= 1 /\ TagIs(DecodeTag(s), tag, TRUE, low, Len(e), 0)
  BY <1>3, <1>5, BracketUnderstood, Zenon
<1>7. PICK t : t = DecodeTag(s)
  OBVIOUS
<1>8. t.number = tag /\ t.low = low /\ t.len = Len(e)
  BY <1>6, <1>7, Zenon DEF TagIs
<1>9. t.number = ExpectedNumber(kind, tag)
  BY <1>2, <1>8, Zenon DEF ExpectedNumber
<1>10. Decode(kind, tag, s) = DecodeBracket(t, low)
  BY <1>1, <1>7, <1>9, DecoderOf
<1>11. DecodeBracket(t, low) = [len |-> Len(e), val |-> << >>]
  <2>1. DecodeBracket(t, low) = Taken(t, 0, << >>)
    BY <1>8, Zenon DEF DecodeBracket
  <2>2. t.len + 0 = Len(e)
    BY <1>6, <1>8, SMT
  <2> QED BY <2>1, <2>2, Zenon DEF Taken
<1>12. f.kind = kind /\ f.tag = tag /\ f.val = << >>
  BY DEF Field
<1> QED BY <1>4, <1>5, <1>6, <1>10, <1>11, <1>12, Zenon DEF ComesBack

LEMMA BooleanUnderstood ==
  ASSUME NEW val \in {0, 1}, NEW f, f = Field("boolean", Application, val),
         NEW r \in Seq(Octet)
  PROVE  ComesBack(f, r)
<1>1. PICK kind : kind = "boolean"
  OBVIOUS
<1>2. f.kind = kind /\ f.tag = Application /\ f.val = val
  BY <1>1 DEF Field
<1>3. PICK e : e = EncodeTag(1, FALSE, val)
  OBVIOUS
<1>4. 1 \in Octet /\ val \in Nat /\ val <= MaxLvt /\ FALSE \in BOOLEAN
  BY SMT DEF Octet, MaxLvt
<1>5. PICK s : s = e \o r
  OBVIOUS
<1>6. e \in Seq(Octet) /\ TagIs(DecodeTag(s), 1, FALSE, IF val <= 4 THEN val ELSE 5, Len(e), val)
  BY <1>3, <1>4, <1>5, TagUnderstood, Zenon
<1>7. e = <<16 + val>>
  <2>1. NumberOctets(1) = << >> /\ LengthOctets(val) = << >>
    BY <1>4, SMT DEF NumberOctets, LengthOctets
  <2>2. FirstOctet(1, FALSE, IF val <= 4 THEN val ELSE 5) = 16 + val
    BY <1>4, SMT DEF FirstOctet
  <2>3. e = <<16 + val>> \o << >> \o << >>
    BY <1>3, <2>1, <2>2, EncodeParts, Zenon
  <2> QED BY <2>3, SMT
<1>8. Len(e) = 1 /\ s[1] = 16 + val
  BY <1>5, <1>7, SMT
<1>9. s[1] % 2 = val
  BY <1>8, SMT
<1>10. Encode(f) = e
  <2>1. f = Field(kind, Application, val)
    BY <1>1, Zenon
  <2>2. EncodeContent(f) = << >> /\ LengthValueType(f) = val
    BY <1>1, <2>1, ContentOf
  <2>3. Encode(f) = EncodeTag(ApplicationTag[kind], FALSE, LengthValueType(f)) \o EncodeContent(f)
    <3>1. TagFits(kind, Application)
      BY DEF TagFits
    <3> QED BY <1>1, <2>1, <3>1, EncoderOf
  <2>4. Encode(f) = e \o << >>
    BY <1>1, <1>3, <2>2, <2>3, DecoderNumbers, Zenon
  <2> QED BY <1>6, <2>4, ConcatEmptySeq, Zenon
<1>11. PICK t : t = DecodeTag(s)
  OBVIOUS
<1>12. t.number = 1 /\ (t.context <=> FALSE)
  BY <1>6, <1>11, Zenon DEF TagIs
<1>13. t.number = ExpectedNumber(kind, Application)
  BY <1>1, <1>12, DecoderNumbers, Zenon DEF ExpectedNumber
<1>14. Decode(kind, Application, s) = DecodeBoolean(t, s)
  BY <1>1, <1>11, <1>13, DecoderOf
<1>15. DecodeBoolean(t, s) = [len |-> Len(e), val |-> val]
  BY <1>8, <1>9, <1>12, Zenon DEF DecodeBoolean
<1>16. Len(e) >= 1
  BY <1>8, SMT
<1> QED BY <1>2, <1>5, <1>6, <1>10, <1>14, <1>15, <1>16, Zenon DEF ComesBack

(* What the eight bits of an octet are worth.                              *)
BitValue == {0, 1}

LEMMA BitsOfOctet ==
  ASSUME NEW a \in BitValue, NEW b \in BitValue, NEW c \in BitValue, NEW d \in BitValue,
         NEW e \in BitValue, NEW f \in BitValue, NEW g \in BitValue, NEW h \in BitValue,
         NEW o, o = 128 * a + 64 * b + 32 * c + 16 * d + 8 * e + 4 * f + 2 * g + h
  PROVE  /\ o \in 0 .. 255
         /\ (o \div 128) % 2 = a /\ (o \div 64) % 2 = b
         /\ (o \div 32) % 2 = c /\ (o \div 16) % 2 = d
         /\ (o \div 8) % 2 = e /\ (o \div 4) % 2 = f
         /\ (o \div 2) % 2 = g /\ (o \div 1) % 2 = h
BY SMT DEF BitValue

LEMMA Powers ==
  /\ 2^0 = 1 /\ 2^1 = 2 /\ 2^2 = 4 /\ 2^3 = 8
  /\ 2^4 = 16 /\ 2^5 = 32 /\ 2^6 = 64 /\ 2^7 = 128
OBVIOUS

LEMMA PowersOfWeights ==
  /\ 2^(8 - 1) = 128 /\ 2^(8 - 2) = 64 /\ 2^(8 - 3) = 32 /\ 2^(8 - 4) = 16
  /\ 2^(8 - 5) = 8 /\ 2^(8 - 6) = 4 /\ 2^(8 - 7) = 2 /\ 2^(8 - 8) = 1
OBVIOUS
-----------------------------------------------------------------------------
(* BitValue j of the octets: those behind the last one are 0.                   *)
BitAt(bits, j) == IF j <= Len(bits) THEN bits[j] ELSE 0

OctetOf(bits, i) ==
  128 * BitAt(bits, 8 * (i - 1) + 1) + 64 * BitAt(bits, 8 * (i - 1) + 2)
    + 32 * BitAt(bits, 8 * (i - 1) + 3) + 16 * BitAt(bits, 8 * (i - 1) + 4)
    + 8 * BitAt(bits, 8 * (i - 1) + 5) + 4 * BitAt(bits, 8 * (i - 1) + 6)
    + 2 * BitAt(bits, 8 * (i - 1) + 7) + BitAt(bits, 8 * (i - 1) + 8)

LEMMA BitType ==
  ASSUME NEW bits \in Seq(BitValue), NEW j \in Nat \ {0}
  PROVE  BitAt(bits, j) \in BitValue
BY DEF BitAt, BitValue

LEMMA OctetBits ==
  ASSUME NEW bits \in Seq(BitValue), NEW i \in Nat \ {0}, NEW o, o = OctetOf(bits, i)
  PROVE  /\ o \in Octet
         /\ (o \div 128) % 2 = BitAt(bits, 8 * (i - 1) + 1)
         /\ (o \div 64) % 2 = BitAt(bits, 8 * (i - 1) + 2)
         /\ (o \div 32) % 2 = BitAt(bits, 8 * (i - 1) + 3)
         /\ (o \div 16) % 2 = BitAt(bits, 8 * (i - 1) + 4)
         /\ (o \div 8) % 2 = BitAt(bits, 8 * (i - 1) + 5)
         /\ (o \div 4) % 2 = BitAt(bits, 8 * (i - 1) + 6)
         /\ (o \div 2) % 2 = BitAt(bits, 8 * (i - 1) + 7)
         /\ (o \div 1) % 2 = BitAt(bits, 8 * (i - 1) + 8)
<1>0. PICK p \in Nat : p = 8 * (i - 1)
  BY SMT
<1>1. /\ p + 1 \in Nat \ {0} /\ p + 2 \in Nat \ {0} /\ p + 3 \in Nat \ {0}
      /\ p + 4 \in Nat \ {0} /\ p + 5 \in Nat \ {0} /\ p + 6 \in Nat \ {0}
      /\ p + 7 \in Nat \ {0} /\ p + 8 \in Nat \ {0}
  BY SMT
<1>2. PICK a \in BitValue : a = BitAt(bits, p + 1)
  BY <1>1, BitType, Zenon
<1>3. PICK b \in BitValue : b = BitAt(bits, p + 2)
  BY <1>1, BitType, Zenon
<1>4. PICK c \in BitValue : c = BitAt(bits, p + 3)
  BY <1>1, BitType, Zenon
<1>5. PICK d \in BitValue : d = BitAt(bits, p + 4)
  BY <1>1, BitType, Zenon
<1>6. PICK e \in BitValue : e = BitAt(bits, p + 5)
  BY <1>1, BitType, Zenon
<1>7. PICK f \in BitValue : f = BitAt(bits, p + 6)
  BY <1>1, BitType, Zenon
<1>8. PICK g \in BitValue : g = BitAt(bits, p + 7)
  BY <1>1, BitType, Zenon
<1>9. PICK h \in BitValue : h = BitAt(bits, p + 8)
  BY <1>1, BitType, Zenon
<1>10. o = 128 * a + 64 * b + 32 * c + 16 * d + 8 * e + 4 * f + 2 * g + h
  BY <1>0, <1>2, <1>3, <1>4, <1>5, <1>6, <1>7, <1>8, <1>9, ZenonT(60) DEF OctetOf
<1>11. /\ o \in 0 .. 255
       /\ (o \div 128) % 2 = a /\ (o \div 64) % 2 = b
       /\ (o \div 32) % 2 = c /\ (o \div 16) % 2 = d
       /\ (o \div 8) % 2 = e /\ (o \div 4) % 2 = f
       /\ (o \div 2) % 2 = g /\ (o \div 1) % 2 = h
  BY <1>10, SMTT(60) DEF BitValue
<1>12. o \in Octet
  BY <1>11, SMT DEF Octet
<1> QED BY <1>0, <1>2, <1>3, <1>4, <1>5, <1>6, <1>7, <1>8, <1>9, <1>11, <1>12, SMT

LEMMA Weights ==
  ASSUME NEW bits \in Seq(BitValue), NEW j \in Nat \ {0}, NEW w \in Nat
  PROVE  (IF j <= Len(bits) THEN bits[j] * w ELSE 0) = w * BitAt(bits, j)
BY DEF BitAt, BitValue

LEMMA BitsWritten ==
  ASSUME NEW bits \in Seq(BitValue), NEW n \in Nat, n = Len(bits),
         NEW m, m = (n - 1) \div 8 + 1
  PROVE  EncodeBits(bits) = <<8 * m - n>> \o [i \in 1 .. m |-> OctetOf(bits, i)]
<1> DEFINE W(i, k) == IF 8 * (i - 1) + k <= Len(bits)
                      THEN bits[8 * (i - 1) + k] * 2^(8 - k) ELSE 0
<1>1. ASSUME NEW i \in 1 .. m
      PROVE  W(i, 1) + W(i, 2) + W(i, 3) + W(i, 4) + W(i, 5) + W(i, 6) + W(i, 7) + W(i, 8)
             = OctetOf(bits, i)
  <2>1. PICK p \in Nat : p = 8 * (i - 1)
    BY SMT
  <2>2. /\ p + 1 \in Nat \ {0} /\ p + 2 \in Nat \ {0} /\ p + 3 \in Nat \ {0}
        /\ p + 4 \in Nat \ {0} /\ p + 5 \in Nat \ {0} /\ p + 6 \in Nat \ {0}
        /\ p + 7 \in Nat \ {0} /\ p + 8 \in Nat \ {0}
    BY SMT
  <2>3. W(i, 1) = 128 * BitAt(bits, p + 1)
    BY <2>1, <2>2, Weights, PowersOfWeights, SMT
  <2>4. W(i, 2) = 64 * BitAt(bits, p + 2)
    BY <2>1, <2>2, Weights, PowersOfWeights, SMT
  <2>5. W(i, 3) = 32 * BitAt(bits, p + 3)
    BY <2>1, <2>2, Weights, PowersOfWeights, SMT
  <2>6. W(i, 4) = 16 * BitAt(bits, p + 4)
    BY <2>1, <2>2, Weights, PowersOfWeights, SMT
  <2>7. W(i, 5) = 8 * BitAt(bits, p + 5)
    BY <2>1, <2>2, Weights, PowersOfWeights, SMT
  <2>8. W(i, 6) = 4 * BitAt(bits, p + 6)
    BY <2>1, <2>2, Weights, PowersOfWeights, SMT
  <2>9. W(i, 7) = 2 * BitAt(bits, p + 7)
    BY <2>1, <2>2, Weights, PowersOfWeights, SMT
  <2>10. W(i, 8) = BitAt(bits, p + 8)
    <3>1. BitAt(bits, p + 8) \in BitValue
      BY <2>2, BitType, Zenon
    <3>2. W(i, 8) = 1 * BitAt(bits, p + 8)
      BY <2>1, <2>2, Weights, PowersOfWeights, SMT
    <3> QED BY <3>1, <3>2, SMT DEF BitValue
  <2> HIDE DEF W
  <2> QED BY <2>1, <2>3, <2>4, <2>5, <2>6, <2>7, <2>8, <2>9, <2>10, ZenonT(60) DEF OctetOf
<1>2. [i \in 1 .. m |-> W(i, 1) + W(i, 2) + W(i, 3) + W(i, 4) + W(i, 5) + W(i, 6) + W(i, 7) + W(i, 8)]
      = [i \in 1 .. m |-> OctetOf(bits, i)]
  <2> HIDE DEF W
  <2> QED BY <1>1, Zenon
<1>3. EncodeBits(bits) = <<8 * m - (n - 1) - 1>>
         \o [i \in 1 .. m |-> W(i, 1) + W(i, 2) + W(i, 3) + W(i, 4) + W(i, 5) + W(i, 6) + W(i, 7) + W(i, 8)]
  BY ZenonT(60) DEF EncodeBits
<1>4. 8 * m - (n - 1) - 1 = 8 * m - n
  BY SMT
<1> HIDE DEF W
<1> QED BY <1>2, <1>3, <1>4, Zenon

LEMMA BitRead ==
  ASSUME NEW bits \in Seq(BitValue), NEW j \in 1 .. Len(bits),
         NEW q, q = (j - 1) \div 8
  PROVE  (OctetOf(bits, q + 1) \div 2^(7 - ((j - 1) % 8))) % 2 = bits[j]
<1>1. PICK k \in 0 .. 7 : k = (j - 1) % 8
  BY SMT
<1>2. q \in Nat /\ 8 * ((q + 1) - 1) + (k + 1) = j
  BY <1>1, SMT
<1>3. PICK i \in Nat \ {0} : i = q + 1
  BY <1>2, SMT
<1>4. PICK o : o = OctetOf(bits, i)
  OBVIOUS
<1>5. PICK p \in Nat : p = 8 * (i - 1)
  BY SMT
<1>6. /\ (o \div 128) % 2 = BitAt(bits, p + 1) /\ (o \div 64) % 2 = BitAt(bits, p + 2)
      /\ (o \div 32) % 2 = BitAt(bits, p + 3) /\ (o \div 16) % 2 = BitAt(bits, p + 4)
      /\ (o \div 8) % 2 = BitAt(bits, p + 5) /\ (o \div 4) % 2 = BitAt(bits, p + 6)
      /\ (o \div 2) % 2 = BitAt(bits, p + 7) /\ (o \div 1) % 2 = BitAt(bits, p + 8)
  BY <1>4, <1>5, OctetBits, ZenonT(60)
<1>7. PICK x : x = 2^(7 - k)
  OBVIOUS
<1>8. (o \div x) % 2 = BitAt(bits, p + (k + 1))
  <2>0. CASE k = 0
    <3>1. 7 - k = 7 /\ p + (k + 1) = p + 1
      BY <2>0, SMT
    <3> QED BY <3>1, <1>6, <1>7, Powers, Zenon
  <2>1. CASE k = 1
    <3>1. 7 - k = 6 /\ p + (k + 1) = p + 2
      BY <2>1, SMT
    <3> QED BY <3>1, <1>6, <1>7, Powers, Zenon
  <2>2. CASE k = 2
    <3>1. 7 - k = 5 /\ p + (k + 1) = p + 3
      BY <2>2, SMT
    <3> QED BY <3>1, <1>6, <1>7, Powers, Zenon
  <2>3. CASE k = 3
    <3>1. 7 - k = 4 /\ p + (k + 1) = p + 4
      BY <2>3, SMT
    <3> QED BY <3>1, <1>6, <1>7, Powers, Zenon
  <2>4. CASE k = 4
    <3>1. 7 - k = 3 /\ p + (k + 1) = p + 5
      BY <2>4, SMT
    <3> QED BY <3>1, <1>6, <1>7, Powers, Zenon
  <2>5. CASE k = 5
    <3>1. 7 - k = 2 /\ p + (k + 1) = p + 6
      BY <2>5, SMT
    <3> QED BY <3>1, <1>6, <1>7, Powers, Zenon
  <2>6. CASE k = 6
    <3>1. 7 - k = 1 /\ p + (k + 1) = p + 7
      BY <2>6, SMT
    <3> QED BY <3>1, <1>6, <1>7, Powers, Zenon
  <2>7. CASE k = 7
    <3>1. 7 - k = 0 /\ p + (k + 1) = p + 8
      BY <2>7, SMT
    <3> QED BY <3>1, <1>6, <1>7, Powers, Zenon
  <2> QED BY <2>0, <2>1, <2>2, <2>3, <2>4, <2>5, <2>6, <2>7, SMT
<1>9. p + (k + 1) = j
  BY <1>2, <1>3, <1>5, SMT
<1>10. BitAt(bits, j) = bits[j]
  BY SMT DEF BitAt
<1> QED BY <1>1, <1>3, <1>4, <1>7, <1>8, <1>9, <1>10, Zenon

LEMMA Prefixed ==
  ASSUME NEW u \in Octet, NEW b \in Seq(Octet), NEW h, h = <<u>>, NEW c, c = h \o b
  PROVE  /\ c \in Seq(Octet) /\ Len(c) = Len(b) + 1 /\ c[1] = u
         /\ \A i \in 1 .. Len(b) : c[1 + i] = b[i]
<1>1. h \in Seq(Octet) /\ Len(h) = 1 /\ h[1] = u
  BY SMT
<1> QED BY <1>1, SMT

LEMMA BitsForm ==
  ASSUME NEW bits \in Seq(BitValue), bits # << >>, Len(bits) <= 256,
         NEW n \in Nat, n = Len(bits), NEW c, c = EncodeBits(bits)
  PROVE  /\ c \in Seq(Octet) /\ Len(c) <= MaxLvt
         /\ 8 * (Len(c) - 1) - c[1] = n
         /\ \A j \in 1 .. n : c[2 + (j - 1) \div 8] = OctetOf(bits, (j - 1) \div 8 + 1)
<1>1. n >= 1
  BY SMT
<1>2. PICK m \in Nat : m = (n - 1) \div 8 + 1
  BY <1>1, SMT
<1>3. m >= 1 /\ m <= 32 /\ 8 * m - n \in 0 .. 7
  BY <1>1, <1>2, SMT
<1>4. PICK b : b = [i \in 1 .. m |-> OctetOf(bits, i)]
  OBVIOUS
<1>5. \A i \in 1 .. m : OctetOf(bits, i) \in Octet
  <2>1. ASSUME NEW i \in 1 .. m PROVE OctetOf(bits, i) \in Octet
    <3>1. i \in Nat \ {0}
      BY SMT
    <3> QED BY <3>1, OctetBits
  <2> QED BY <2>1, Zenon
<1>6. /\ b \in Seq(Octet) /\ Len(b) = m
      /\ \A i \in 1 .. m : b[i] = OctetOf(bits, i)
  BY <1>4, <1>5, SMT
<1>7. PICK u \in Octet : u = 8 * m - n
  BY <1>3, SMT DEF Octet
<1>8. PICK h : h = <<u>>
  OBVIOUS
<1>10. c = h \o b
  BY <1>2, <1>4, <1>7, <1>8, BitsWritten, Zenon
<1>11. /\ c \in Seq(Octet) /\ Len(c) = m + 1 /\ c[1] = u
       /\ \A i \in 1 .. m : c[1 + i] = b[i]
  BY <1>6, <1>8, <1>10, Prefixed
<1>12. Len(c) <= MaxLvt /\ 8 * (Len(c) - 1) - c[1] = n
  <2>1. Len(c) <= MaxLvt
    BY <1>3, <1>11, SMT DEF MaxLvt
  <2>2. 8 * (Len(c) - 1) = 8 * m
    BY <1>11, SMT
  <2>3. 8 * m - u = n
    BY <1>7, SMT
  <2> QED BY <2>1, <2>2, <2>3, <1>11, Zenon
<1>13. ASSUME NEW j \in 1 .. n
       PROVE  c[2 + (j - 1) \div 8] = OctetOf(bits, (j - 1) \div 8 + 1)
  <2>1. PICK i \in 1 .. m : i = (j - 1) \div 8 + 1
    BY <1>2, SMT
  <2>2. 2 + (j - 1) \div 8 = 1 + i
    BY <2>1, SMT
  <2>3. c[1 + i] = OctetOf(bits, i)
    BY <1>6, <1>11, Zenon
  <2> QED BY <2>1, <2>2, <2>3, Zenon
<1> QED BY <1>11, <1>12, <1>13, Zenon

LEMMA BitsUnderstood ==
  ASSUME NEW val \in Seq(BitValue), val # << >>, Len(val) <= 256,
         NEW tag \in Octet \cup {Application},
         NEW f, f = Field("bits", tag, val), NEW r \in Seq(Octet)
  PROVE  ComesBack(f, r)
<1>1. PICK kind \in Kinds : kind = "bits"
  BY DEF Kinds
<1>2. PICK n \in Nat : n = Len(val)
  OBVIOUS
<1>3. PICK c : c = EncodeBits(val)
  OBVIOUS
<1>4. /\ c \in Seq(Octet) /\ Len(c) <= MaxLvt
      /\ 8 * (Len(c) - 1) - c[1] = n
      /\ \A j \in 1 .. n : c[2 + (j - 1) \div 8] = OctetOf(val, (j - 1) \div 8 + 1)
  BY <1>2, <1>3, BitsForm
<1>5. f = Field(kind, tag, val)
  BY <1>1, Zenon
<1>6. c = EncodeContent(f) /\ LengthValueType(f) = Len(c)
  BY <1>1, <1>3, <1>5, ContentOf
<1>7. PICK v : v = [j \in 1 .. n |-> (c[2 + (j - 1) \div 8] \div 2^(7 - ((j - 1) % 8))) % 2]
  OBVIOUS
<1>8. ASSUME NEW j \in 1 .. n PROVE v[j] = val[j] /\ val[j] \in BitValue
  <2>1. PICK q : q = (j - 1) \div 8
    OBVIOUS
  <2>2. c[2 + (j - 1) \div 8] = OctetOf(val, q + 1)
    BY <1>4, <2>1, Zenon
  <2>3. (OctetOf(val, q + 1) \div 2^(7 - ((j - 1) % 8))) % 2 = val[j]
    BY <1>2, <2>1, BitRead
  <2>4. v[j] = (c[2 + (j - 1) \div 8] \div 2^(7 - ((j - 1) % 8))) % 2
    BY <1>7, Zenon
  <2>5. val[j] \in BitValue
    BY <1>2, SMT
  <2> QED BY <2>2, <2>3, <2>4, <2>5, Zenon
<1>9. v = val
  <2>1. v = [j \in 1 .. n |-> val[j]]
    <3>1. \A j \in 1 .. n :
            (c[2 + (j - 1) \div 8] \div 2^(7 - ((j - 1) % 8))) % 2 = val[j]
      BY <1>7, <1>8, Zenon
    <3> QED BY <1>7, <3>1, Zenon
  <2>2. val = [j \in 1 .. n |-> val[j]]
    BY <1>2, SMT
  <2> QED BY <2>1, <2>2, Zenon
<1>10. ASSUME NEW t, NEW s, Seen(kind, tag, c, t, s)
      PROVE  Decode(kind, tag, s) = Taken(t, Len(c), val)
  <2>1. Decode(kind, tag, s) = DecodeBits(t, s)
    BY <1>1, <1>10, DecoderOf DEF Seen
  <2>2. t.lvt = Len(c) /\ Content(t, Len(c), s) = c
    BY <1>10, Zenon DEF Seen
  <2>3. DecodeBits(t, s) = Taken(t, Len(c), v)
    BY <1>4, <1>7, <2>2, Zenon DEF DecodeBits
  <2> QED BY <2>1, <2>3, <1>9, Zenon
<1>19. TagFits(kind, tag)
  BY <1>1 DEF TagFits, ContentFirst, Integer
<1>20. Plain(kind, tag, val, f, c)
  BY <1>1, <1>4, <1>5, <1>6, <1>19 DEF Plain
<1>21. ReadsAll(kind, tag, val, c)
  BY <1>10, Zenon DEF ReadsAll
<1> QED BY <1>20, <1>21, AllTaken, Zenon

-----------------------------------------------------------------------------
LEMMA IntegersFit ==
  ASSUME NEW val \in {0} \X Octet \X Octet \X Octet
  PROVE  val \in Word /\ val[1] = 0
<1>1. 0 \in Octet
  BY SMT DEF Octet
<1> QED BY <1>1, SMT DEF Word

LEMMA ObjectsFit ==
  ASSUME NEW val \in ObjectId
  PROVE  \E type, instance : val = <<type, instance>> /\ IsObjectId(type, instance)
<1>1. PICK type \in Nat, instance \in Nat : val = <<type, instance>>
  BY SMT DEF ObjectId
<1>2. IsObjectId(type, instance)
  BY <1>1, SMT DEF ObjectId, IsObjectId
<1> QED BY <1>1, <1>2, Zenon

(* A tag number is no application tag, and a string of some bits is not empty. *)
LEMMA ContextTag ==
  ASSUME NEW tag \in OneOctetTag
  PROVE  tag \in OneOctetTag \cup {Application} /\ tag # Application
BY SMT DEF OneOctetTag, Application

LEMMA SomeBits ==
  ASSUME NEW val \in Seq(BitValue), Len(val) \in 1 .. MaxBits
  PROVE  val # << >> /\ Len(val) <= 256
<1>1. MaxBits \in Nat /\ MaxBits <= 256
  BY SMT DEF MaxBits
<1> QED BY <1>1, SMT

(* The decoder of each kind takes exactly the octets that the encoder of   *)
(* this kind wrote, whatever follows them, and yields the value: for every *)
(* field of DecodableField.                                                *)
THEOREM FieldUnderstood ==
  ASSUME NEW f \in DecodableField, NEW r \in Seq(Octet)
  PROVE  ComesBack(f, r)
<1>1. CASE f \in [kind : {"opening", "closing"}, tag : Octet, val : {<< >>}]
  <2>1. /\ f.kind \in {"opening", "closing"} /\ f.tag \in Octet
        /\ f = Field(f.kind, f.tag, << >>)
    BY <1>1 DEF Field
  <2> QED BY <2>1, BracketFieldUnderstood, Zenon
<1>2. CASE f \in [kind : {"null"}, tag : {Application}, val : {<< >>}]
  <2>1. f.tag \in {Application} /\ f = Field("null", f.tag, << >>)
    BY <1>2 DEF Field
  <2> QED BY <2>1, NullUnderstood, Zenon
<1>3. CASE f \in [kind : {"boolean"}, tag : {Application}, val : {0, 1}]
  <2>1. f.val \in {0, 1} /\ f = Field("boolean", Application, f.val)
    BY <1>3 DEF Field
  <2> QED BY <2>1, BooleanUnderstood, Zenon
<1>4. CASE f \in [kind : {"unsigned", "enum"}, tag : OneOctetTag \cup {Application},
                  val : {0} \X Octet \X Octet \X Octet]
  <2>1. /\ f.kind \in Integer /\ f.kind # "signed" /\ f.tag \in OneOctetTag \cup {Application}
        /\ f.val \in {0} \X Octet \X Octet \X Octet /\ f = Field(f.kind, f.tag, f.val)
    BY <1>4 DEF Field, Integer
  <2>2. f.val \in Word /\ f.val[1] = 0
    BY <2>1, IntegersFit, Zenon
  <2> QED BY <2>1, <2>2, IntegerUnderstood, Zenon
<1>5. CASE f \in [kind : {"signed"}, tag : OneOctetTag,
                  val : {0} \X Octet \X Octet \X Octet]
  <2>1. /\ f.kind \in Integer /\ f.tag \in OneOctetTag
        /\ f.val \in {0} \X Octet \X Octet \X Octet /\ f = Field(f.kind, f.tag, f.val)
    BY <1>5 DEF Field, Integer
  <2>2. f.val \in Word /\ f.val[1] = 0
    BY <2>1, IntegersFit, Zenon
  <2>3. f.tag \in OneOctetTag \cup {Application} /\ f.tag # Application
    BY <2>1, ContextTag, Zenon
  <2> QED BY <2>1, <2>2, <2>3, IntegerUnderstood, Zenon
<1>6. CASE f \in [kind : {"real", "date", "time"}, tag : {Application}, val : Word]
  <2>1. /\ f.kind \in FourOctets /\ f.tag \in {Application} /\ f.val \in Word
        /\ f = Field(f.kind, f.tag, f.val)
    BY <1>6 DEF Field, FourOctets
  <2> QED BY <2>1, FourOctetsUnderstood, Zenon
<1>7. CASE f \in [kind : {"object"}, tag : OneOctetTag \cup {Application}, val : ObjectId]
  <2>1. /\ f.tag \in OneOctetTag \cup {Application} /\ f.val \in ObjectId
        /\ f = Field("object", f.tag, f.val)
    BY <1>7 DEF Field
  <2>2. PICK type, instance : f.val = <<type, instance>> /\ IsObjectId(type, instance)
    BY <2>1, ObjectsFit, Zenon
  <2>3. f = Field("object", f.tag, <<type, instance>>)
    BY <2>1, <2>2, Zenon
  <2> QED BY <2>1, <2>2, <2>3, ObjectUnderstood, Zenon
<1>8. CASE f \in [kind : {"string"}, tag : Octet \cup {Application},
                  val : {s \in Seq(Octet) : Len(s) <= MaxApduLen - 6}]
  <2>1. /\ f.tag \in Octet \cup {Application}
        /\ f.val \in Seq(Octet) /\ Len(f.val) <= MaxApduLen - 6
        /\ f = Field("string", f.tag, f.val)
    BY <1>8 DEF Field
  <2> QED BY <2>1, StringUnderstood, Zenon
<1>9. CASE f \in [kind : {"bits"}, tag : {Application},
                   val : {b \in Seq({0, 1}) : Len(b) \in 1 .. MaxBits}]
  <2>1. /\ f.tag \in Octet \cup {Application} /\ f.val \in Seq(BitValue)
        /\ Len(f.val) \in 1 .. MaxBits /\ f = Field("bits", f.tag, f.val)
    BY <1>9, SMT DEF Field, BitValue
  <2>2. f.val # << >> /\ Len(f.val) <= 256
    BY <2>1, SomeBits, SMT
  <2> QED BY <2>1, <2>2, BitsUnderstood, SMT
<1> QED
  BY <1>1, <1>2, <1>3, <1>4, <1>5, <1>6, <1>7, <1>8, <1>9, SMT DEF DecodableField

=============================================================================
