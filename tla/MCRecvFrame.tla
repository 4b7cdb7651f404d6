---------------------------- MODULE MCRecvFrame ----------------------------
(***************************************************************************)
(* Small instances of RecvFrame: a buffer of 20 bytes, frames of at most   *)
(* one data byte, checksums that tell the frames of the instance apart     *)
(* (the data checksum of no data is 0, as recvframe.cpp:300-310 has it).   *)
(***************************************************************************)
EXTENDS RecvFrame

MCByte == (0 .. 10) \cup {85, 255}
MCHeadCrc(h) == (7 + h[1] + 2 * h[2] + 3 * h[3] + h[4] + h[5]) % 11
MCDataCrc(d) == IF d = << >> THEN 0 ELSE 513 + (d[1] % 10)

Token == FrameOf(0, 1, 2, << >>)
Poll  == FrameOf(1, 1, 2, << >>)
Ack   == FrameOf(2, 1, 2, << >>)
Data  == FrameOf(5, 1, 2, <<9>>)

Frames == {Token, Poll, Ack, Data}

Noise == {<<0>>, <<85>>}                   \* a glitch; a preamble cut off
BadHead == [Token EXCEPT ![8] = (@ + 1) % 11]     \* header CRC wrong
BadData == [Data EXCEPT ![9] = @ + 1]      \* data CRC wrong

Pieces == {<< >>, <<85>>, Poll, Data, BadHead, BadData}
Garbage == {a \o b : a, b \in Pieces}
Nothing == {<< >>}
Glitch == {<<0>>}
TokensOnly == {Token}

=============================================================================
