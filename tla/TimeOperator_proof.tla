------------------------- MODULE TimeOperator_proof -------------------------
(***************************************************************************)
(* How far the int that mdiff() returns is the age of a timer.             *)
(***************************************************************************)
EXTENDS TimeOperator, TLAPS

LEMMA Int32Small ==
  ASSUME NEW n \in Int, -IntLimit <= n, n < IntLimit
  PROVE  Int32(n) = n
BY SMT DEF Int32, IntLimit

LEMMA Int32Wrapped ==
  ASSUME NEW n \in Int, IntLimit <= n, n < 2 * IntLimit
  PROVE  Int32(n) = n - 2 * IntLimit
BY SMT DEF Int32, IntLimit

LEMMA QuotientNear ==
  ASSUME NEW n \in Int
  PROVE  /\ Quotient(n, 1000) \in Int
         /\ 1000 * Quotient(n, 1000) - n < 1000 /\ n - 1000 * Quotient(n, 1000) < 1000
BY SMT DEF Quotient

(* The milliseconds before they become an int. *)
Millis(n, t) == (n.tv_sec - t.tv_sec) * 1000 + Quotient(n.tv_usec - t.tv_usec, 1000)

LEMMA ReadingInt ==
  ASSUME NEW r \in Reading
  PROVE  r.tv_sec \in Int /\ r.tv_usec \in Int
<1>1. r.tv_sec \in Int /\ r.tv_usec \in Micros
  BY Zenon DEF Reading
<1>2. Micros \subseteq Int
  BY DEF Micros
<1> QED BY <1>1, <1>2

LEMMA MillisNear ==
  ASSUME NEW n \in Reading, NEW t \in Reading
  PROVE  /\ Millis(n, t) \in Int /\ Elapsed(n, t) \in Int
         /\ 1000 * Millis(n, t) - Elapsed(n, t) < 1000
         /\ Elapsed(n, t) - 1000 * Millis(n, t) < 1000
<1> DEFINE s == n.tv_sec - t.tv_sec
           u == n.tv_usec - t.tv_usec
<1>1. s \in Int /\ u \in Int
  BY ReadingInt, SMT
<1> HIDE DEF s, u
<1>2. /\ Quotient(u, 1000) \in Int /\ 1000 * Quotient(u, 1000) - u < 1000
      /\ u - 1000 * Quotient(u, 1000) < 1000
  BY <1>1, QuotientNear
<1>3. Millis(n, t) = s * 1000 + Quotient(u, 1000)
  BY DEF Millis, s, u
<1>4. Elapsed(n, t) = 1000 * 1000 * s + u
  BY DEF Elapsed, s, u
<1> QED BY <1>1, <1>2, <1>3, <1>4, SMT

(* For 24 days a timer in milliseconds, mdiff() > k or not mdiff() < k + 1,*)
(* is right to the millisecond: it never fires before k milliseconds have  *)
(* passed, and it has fired when one more has.                             *)
THEOREM TimersRight ==
  ASSUME NEW n \in Reading, NEW t \in Reading, NEW k \in Nat,
         0 <= Elapsed(n, t), Elapsed(n, t) < 1000 * IntLimit - 1000
  PROVE  /\ mdiff(n, t) > k => Elapsed(n, t) > 1000 * k
         /\ Elapsed(n, t) >= 1000 * (k + 1) => mdiff(n, t) > k
<1>1. /\ Millis(n, t) \in Int /\ Elapsed(n, t) \in Int
      /\ 1000 * Millis(n, t) - Elapsed(n, t) < 1000
      /\ Elapsed(n, t) - 1000 * Millis(n, t) < 1000
  BY MillisNear
<1>2. -IntLimit <= Millis(n, t) /\ Millis(n, t) < IntLimit
  BY <1>1, SMT DEF IntLimit
<1>3. mdiff(n, t) = Millis(n, t)
  BY <1>1, <1>2, Int32Small DEF mdiff, Millis
<1> QED BY <1>1, <1>3, SMT

(* Then, for another 24 days, the age is a negative int: after so long a   *)
(* silence no poll is due, and nothing received is dropped any more.       *)
THEOREM TimersWrap ==
  ASSUME NEW n \in Reading, NEW t \in Reading, NEW k \in Nat,
         1000 * IntLimit + 1000 <= Elapsed(n, t),
         Elapsed(n, t) < 2000 * IntLimit - 1000
  PROVE  ~(mdiff(n, t) > k)
<1>1. /\ Millis(n, t) \in Int /\ Elapsed(n, t) \in Int
      /\ 1000 * Millis(n, t) - Elapsed(n, t) < 1000
      /\ Elapsed(n, t) - 1000 * Millis(n, t) < 1000
  BY MillisNear
<1>2. IntLimit <= Millis(n, t) /\ Millis(n, t) < 2 * IntLimit
  BY <1>1, SMT DEF IntLimit
<1>3. mdiff(n, t) = Millis(n, t) - 2 * IntLimit
  BY <1>1, <1>2, Int32Wrapped DEF mdiff, Millis
<1> QED BY <1>1, <1>2, <1>3, SMT DEF IntLimit

(* A clock that has been set back by up to 24 days makes an age of zero or *)
(* less: no timer fires until the clock has caught up.                     *)
THEOREM TimersStopped ==
  ASSUME NEW n \in Reading, NEW t \in Reading, NEW k \in Nat,
         -(1000 * IntLimit) <= Elapsed(n, t), Elapsed(n, t) <= 0
  PROVE  ~(mdiff(n, t) > k)
<1>1. /\ Millis(n, t) \in Int /\ Elapsed(n, t) \in Int
      /\ 1000 * Millis(n, t) - Elapsed(n, t) < 1000
      /\ Elapsed(n, t) - 1000 * Millis(n, t) < 1000
  BY MillisNear
<1>2. -IntLimit <= Millis(n, t) /\ Millis(n, t) <= 0
  BY <1>1, SMT DEF IntLimit
<1>3. mdiff(n, t) = Millis(n, t)
  BY <1>1, <1>2, Int32Small, SMT DEF mdiff, Millis, IntLimit
<1> QED BY <1>1, <1>2, <1>3, SMT

(* A timer in seconds, sdiff() > k or not sdiff() < k + 1, leaves the      *)
(* microseconds out: it never fires before k seconds have passed, but it   *)
(* may take up to two more.  A station is taken for silent after 10 to 12. *)
THEOREM SecondsRight ==
  ASSUME NEW n \in Reading, NEW t \in Reading, NEW k \in Nat,
         -IntLimit <= n.tv_sec - t.tv_sec, n.tv_sec - t.tv_sec < IntLimit
  PROVE  /\ sdiff(n, t) > k => Elapsed(n, t) > 1000 * 1000 * k
         /\ Elapsed(n, t) >= 1000 * 1000 * (k + 2) => sdiff(n, t) > k
<1> DEFINE s == n.tv_sec - t.tv_sec
<1>1. s \in Int
  BY ReadingInt, SMT
<1>2. sdiff(n, t) = s
  BY <1>1, Int32Small DEF sdiff
<1>3. /\ n.tv_usec \in Nat /\ n.tv_usec < 1000 * 1000
      /\ t.tv_usec \in Nat /\ t.tv_usec < 1000 * 1000
  <2>1. n.tv_usec \in Micros /\ t.tv_usec \in Micros
    BY Zenon DEF Reading
  <2> QED BY <2>1, Zenon DEF Micros
<1>4. Elapsed(n, t) = 1000 * 1000 * s + (n.tv_usec - t.tv_usec)
  BY DEF Elapsed
<1> HIDE DEF s
<1> QED BY <1>1, <1>2, <1>3, <1>4, SMT

=============================================================================
