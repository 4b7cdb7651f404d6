------------------------------- MODULE Mstpcrc -------------------------------
(***************************************************************************)
(* The two check sums of mstp/mstpcrc.cpp, from a table of 256 entries     *)
(* each, and the polynomials that the tables are to be made of.            *)
(***************************************************************************)
EXTENDS Integers, Sequences

USHRT_MAX == 65535
Bits16 == 0 .. USHRT_MAX         \* of an unsigned short

Bit(n, k) == (n \div 2^k) % 2

XorBit(m, n, k) == ((Bit(m, k) + Bit(n, k)) % 2) * 2^k
XorDigit ==                      \* of two numbers of four bits
  [m \in 0 .. 15 |-> [n \in 0 .. 15 |->
     XorBit(m, n, 0) + XorBit(m, n, 1) + XorBit(m, n, 2) + XorBit(m, n, 3)]]

Xor(m, n) == 16 * XorDigit[m \div 16][n \div 16] + XorDigit[m % 16][n % 16]

-----------------------------------------------------------------------------
(* The entry for the octet n is at n + 1. *)
MSTPHeaderCRC_table ==
  <<
      0, 254, 255,   1, 253,   3,   2, 252, 249,   7,   6, 248,   4, 250, 251,   5,
    241,  15,  14, 240,  12, 242, 243,  13,   8, 246, 247,   9, 245,  11,  10, 244,
    225,  31,  30, 224,  28, 226, 227,  29,  24, 230, 231,  25, 229,  27,  26, 228,
     16, 238, 239,  17, 237,  19,  18, 236, 233,  23,  22, 232,  20, 234, 235,  21,
    193,  63,  62, 192,  60, 194, 195,  61,  56, 198, 199,  57, 197,  59,  58, 196,
     48, 206, 207,  49, 205,  51,  50, 204, 201,  55,  54, 200,  52, 202, 203,  53,
     32, 222, 223,  33, 221,  35,  34, 220, 217,  39,  38, 216,  36, 218, 219,  37,
    209,  47,  46, 208,  44, 210, 211,  45,  40, 214, 215,  41, 213,  43,  42, 212,
    129, 127, 126, 128, 124, 130, 131, 125, 120, 134, 135, 121, 133, 123, 122, 132,
    112, 142, 143, 113, 141, 115, 114, 140, 137, 119, 118, 136, 116, 138, 139, 117,
     96, 158, 159,  97, 157,  99,  98, 156, 153, 103, 102, 152, 100, 154, 155, 101,
    145, 111, 110, 144, 108, 146, 147, 109, 104, 150, 151, 105, 149, 107, 106, 148,
     64, 190, 191,  65, 189,  67,  66, 188, 185,  71,  70, 184,  68, 186, 187,  69,
    177,  79,  78, 176,  76, 178, 179,  77,  72, 182, 183,  73, 181,  75,  74, 180,
    161,  95,  94, 160,  92, 162, 163,  93,  88, 166, 167,  89, 165,  91,  90, 164,
     80, 174, 175,  81, 173,  83,  82, 172, 169,  87,  86, 168,  84, 170, 171,  85
  >>

MSTPDataCRC_table ==
  <<
        0,  4489,  8978, 12955, 17956, 22445, 25910, 29887, 35912, 40385, 44890,
    48851, 51820, 56293, 59774, 63735,  4225,   264, 13203,  8730, 22181, 18220,
    30135, 25662, 40137, 36160, 49115, 44626, 56045, 52068, 63999, 59510,  8450,
    12427,   528,  5017, 26406, 30383, 17460, 21949, 44362, 48323, 36440, 40913,
    60270, 64231, 51324, 55797, 12675,  8202,  4753,   792, 30631, 26158, 21685,
    17724, 48587, 44098, 40665, 36688, 64495, 60006, 55549, 51572, 16900, 21389,
    24854, 28831,  1056,  5545, 10034, 14011, 52812, 57285, 60766, 64727, 34920,
    39393, 43898, 47859, 21125, 17164, 29079, 24606,  5281,  1320, 14259,  9786,
    57037, 53060, 64991, 60502, 39145, 35168, 48123, 43634, 25350, 29327, 16404,
    20893,  9506, 13483,  1584,  6073, 61262, 65223, 52316, 56789, 43370, 47331,
    35448, 39921, 29575, 25102, 20629, 16668, 13731,  9258,  5809,  1848, 65487,
    60998, 56541, 52564, 47595, 43106, 39673, 35696, 33800, 38273, 42778, 46739,
    49708, 54181, 57662, 61623,  2112,  6601, 11090, 15067, 20068, 24557, 28022,
    31999, 38025, 34048, 47003, 42514, 53933, 49956, 61887, 57398,  6337,  2376,
    15315, 10842, 24293, 20332, 32247, 27774, 42250, 46211, 34328, 38801, 58158,
    62119, 49212, 53685, 10562, 14539,  2640,  7129, 28518, 32495, 19572, 24061,
    46475, 41986, 38553, 34576, 62383, 57894, 53437, 49460, 14787, 10314,  6865,
     2904, 32743, 28270, 23797, 19836, 50700, 55173, 58654, 62615, 32808, 37281,
    41786, 45747, 19012, 23501, 26966, 30943,  3168,  7657, 12146, 16123, 54925,
    50948, 62879, 58390, 37033, 33056, 46011, 41522, 23237, 19276, 31191, 26718,
     7393,  3432, 16371, 11898, 59150, 63111, 50204, 54677, 41258, 45219, 33336,
    37809, 27462, 31439, 18516, 23005, 11618, 15595,  3696,  8185, 63375, 58886,
    54429, 50452, 45483, 40994, 37561, 33584, 31687, 27214, 22741, 18780, 15843,
    11370,  7921,  3960
  >>

CRC_Calc_Header_Last(octet, crc) ==   \* mutant: what came before is lost
  MSTPHeaderCRC_table[octet + 1]
CRC_Calc_Header(octet, crc) == MSTPHeaderCRC_table[Xor(octet, crc) + 1]

(* Of the 16 bits that are combined only the lower octet has both parts. *)
CRC_Calc_Data_Low(octet, crc) ==      \* mutant: crc >> 8 is left out
  MSTPDataCRC_table[Xor(octet, crc % 256) + 1]
CRC_Calc_Data(octet, crc) ==
  LET entry == MSTPDataCRC_table[Xor(octet, crc % 256) + 1]
  IN  256 * (entry \div 256) + Xor(crc \div 256, entry % 256)

(* The check sum after the last octet, from what it is before the first:   *)
(* crc[w][n][v] is v taken through the w octets behind the first n.        *)
Through(first, octets, next) ==
  LET crc[w \in 0 .. Len(octets)] ==
        [n \in 0 .. Len(octets) |-> [v \in DOMAIN next[0] |->
           IF w = 0 THEN v ELSE IF w = 1 THEN next[octets[n + 1]][v]
           ELSE crc[w - w \div 2][n + w \div 2][crc[w \div 2][n][v]]]]
  IN  crc[Len(octets)][0][first]

HeadCrc(octets) ==
  255 - Through(255, octets,
          [c \in 0 .. 255 |-> [crc \in 0 .. 255 |-> CRC_Calc_Header(c, crc)]])
DataCrc(octets) ==
  65535 - Through(65535, octets,
            [c \in 0 .. 255 |-> [crc \in Bits16 |-> CRC_Calc_Data(c, crc)]])

-----------------------------------------------------------------------------
(* What the tables stand for, one bit at a time: the remainders of an      *)
(* octet by the polynomials x^8 + x^7 + 1 and x^16 + x^12 + x^5 + 1, lowest *)
(* bit first.                                                              *)
HeadPoly == 129       \* 0x81
DataPoly == 33800     \* 0x8408

Xor16(m, n) == 256 * Xor(m \div 256, n \div 256) + Xor(m % 256, n % 256)

Halved(r, poly) == IF r % 2 = 0 THEN r \div 2 ELSE Xor16(r \div 2, poly)
Remainder(n, poly) ==
  LET Twice(r) == Halved(Halved(r, poly), poly)
  IN  Twice(Twice(Twice(Twice(n))))
HeadRemainder == [n \in 0 .. 255 |-> Remainder(n, HeadPoly)]
DataRemainder == [n \in 0 .. 255 |-> Remainder(n, DataPoly)]

(* A check sum sent behind the octets that it was made of leaves a         *)
(* remainder that does not depend on them.                                 *)
HeadResidue(octets) ==
  Through(255, octets,
    [c \in 0 .. 255 |-> [crc \in 0 .. 255 |-> HeadRemainder[Xor(c, crc)]]])
DataResidue(octets) ==
  Through(65535, octets,
    [c \in 0 .. 255 |-> [crc \in Bits16 |->
       Xor16(crc \div 256, DataRemainder[Xor(c, crc % 256)])]])

=============================================================================
