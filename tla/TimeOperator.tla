---------------------------- MODULE TimeOperator ----------------------------
(***************************************************************************)
(* The clock arithmetic of mstp/timeoperator.cpp: the age of a timer, from *)
(* the clock's reading now and the one that init() took.                   *)
(*                                                                         *)
(* The other modules have ages and elapsed flags in its place; what is     *)
(* proved of it says how far they are right.                               *)
(***************************************************************************)
EXTENDS Integers

IntLimit == 65536 * 32768                 \* 2^31

(* The conversion to int: the low 32 bits, with a sign. *)
Int32(n) == ((n + IntLimit) % (2 * IntLimit)) - IntLimit

(* Division as C has it, towards zero. *)
Quotient(n, d) == IF n >= 0 THEN n \div d ELSE -((-n) \div d)

(* struct timeval *)
Micros == {u \in Nat : u < 1000 * 1000}
Reading == [tv_sec : Int, tv_usec : Micros]

sdiff(n, t) == Int32(n.tv_sec - t.tv_sec)

mdiff(n, t) ==
  Int32((n.tv_sec - t.tv_sec) * 1000 + Quotient(n.tv_usec - t.tv_usec, 1000))

udiff(n, t) ==
  Int32((n.tv_sec - t.tv_sec) * 1000 * 1000 + (n.tv_usec - t.tv_usec))

(* The time between two readings, in microseconds. *)
Elapsed(n, t) == 1000 * 1000 * (n.tv_sec - t.tv_sec) + (n.tv_usec - t.tv_usec)

=============================================================================
