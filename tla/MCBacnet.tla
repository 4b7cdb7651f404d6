------------------------------ MODULE MCBacnet ------------------------------
(***************************************************************************)
(* Small instances of Bacnet: the addresses 0 and 1 are polled, the        *)
(* node is 2, broadcast is 9.                                              *)
(***************************************************************************)
EXTENDS Bacnet

MCStation == {0, 1, 2, 9}
(* A request by its characters: 'r' is 114, 'w' is 119, 'A' is 65, 'B' is  *)
(* 66, 'M' is 77.                                                          *)
Ask(mode, type, instance) ==
  [dev |-> 1, mode |-> mode, type |-> type, instance |-> instance,
   binary |-> 1, analog |-> 7]

(* As in test/bacnet.cpp:4-13, (1, 'r', 'A', 103) and (1, 'r', 'B', 103)   *)
(* are two requests that look alike on the line.                           *)
MCBatch == <<Ask(114, 65, 103), Ask(114, 66, 203), Ask(114, 66, 103)>>

(* With a request that DoRequest() does not know, 'w' and 'M', and writes. *)
MixedBatch == <<Ask(114, 65, 103), Ask(119, 77, 103), Ask(114, 66, 103),
                Ask(119, 65, 103), Ask(119, 66, 103)>>

(* Tokens, polls, answers and data, to anybody, from station 0 and with    *)
(* the source address 255.                                                 *)
AnyFrame == [type : {0, 1, 2, 6}, dst : MCStation, src : {0, 9}]

(* A token for the node, a poll of the node, an answer of station 1, and   *)
(* a token for station 1, which the node only takes when 1 is silent.      *)
Calls == {Header(0, 2, 0), Header(1, 2, 0), Header(2, 2, 1), Header(0, 1, 0)}

(* Polls by station 0 of the node, of station 1 and of everybody. *)
BroadcastPolls == {Header(1, 2, 0), Header(1, 1, 0), Header(1, 9, 0)}

=============================================================================
