---------------------------- MODULE MemoryDomain ----------------------------
(***************************************************************************)
(* One managed memory domain (src/src/capacity.cpp, class MemoryDomain).   *)
(* Counters are unsigned words: Word is 2^64 in the code.  A mutator that  *)
(* throws is modelled by its guard (reserve returns false, the others      *)
(* throw): the operator below the guard is what it does when it does not.  *)
(***************************************************************************)
EXTENDS Integers

CONSTANT Word

ASSUME WordAssumption == Word \in Nat \ {0}

Bytes == 0..(Word - 1)

MemoryDomainRecord ==
  [total : Bytes, governed : Bytes, unavailable : Bytes,
   reserved : Bytes, resident : Bytes, pinned : Bytes]

\* Unsigned addition and subtraction of two words, as the plain C++ operators
\* on uint64_t do them.
WordPlus(a, b)  == IF a + b < Word THEN a + b ELSE a + b - Word
WordMinus(a, b) == IF b <= a THEN a - b ELSE a - b + Word

\* available() subtracts with checked_sub, which throws on underflow.
available_defined(d) ==
  d.reserved <= d.governed /\ d.resident <= d.governed - d.reserved
available(d) == d.governed - d.reserved - d.resident

\* Slip: the bytes already resident are forgotten.
CanReserveIgnoringResident(d, n) ==
  n = 0 \/ n <= WordMinus(d.governed, d.reserved)

can_reserve(d, n) ==
  LET used == WordPlus(d.reserved, d.resident)
  IN  \/ n = 0
      \/ /\ used >= d.reserved
         /\ n <= d.governed
         /\ n <= WordMinus(d.governed, used)

can_resident(d, n) ==
  n = 0 \/ (n <= d.governed /\ n <= WordMinus(d.governed, d.resident))

\* Slip: the bytes promised are not counted.
ReserveNothing(d, n) == d

reserve(d, n) == [d EXCEPT !.reserved = @ + n]

\* Slip: the bytes become resident and stay reserved.
CommitKeepingHold(d, n) == [d EXCEPT !.resident = @ + n]

can_commit(d, n) == n <= d.reserved /\ can_resident(d, n)
commit(d, n) == [d EXCEPT !.reserved = @ - n, !.resident = @ + n]

\* Slip: the reservation is given back twice.
CancelTwice(d, n) == [d EXCEPT !.reserved = @ - 2 * n]

\* Slip: the reservation is not given back.
CancelNothing(d, n) == d

can_cancel(d, n) == n <= d.reserved
cancel_reservation(d, n) == [d EXCEPT !.reserved = @ - n]

\* Slip: one byte too many passes the guard.
CanReleaseOneMore(d, n) == n <= d.resident + 1

can_release(d, n) == n <= d.resident

\* Slip: released bytes stay in the pinned counter.
ReleaseKeepingPins(d, n) == [d EXCEPT !.resident = @ - n]

\* Releasing takes the bytes out of the pinned counter first, whoever pinned.
release(d, n) ==
  [d EXCEPT !.resident = @ - n, !.pinned = IF n <= @ THEN @ - n ELSE 0]

can_pin(d, n) == n <= WordMinus(d.resident, d.pinned)
pin(d, n) == [d EXCEPT !.pinned = @ + n]

can_unpin(d, n) == n <= d.pinned
unpin(d, n) == [d EXCEPT !.pinned = @ - n]

\* The governed capacity follows the unavailable one only while it is unset.
set_unavailable(d, n) ==
  [d EXCEPT !.unavailable = n,
            !.governed = IF @ = 0 THEN d.total - n ELSE @]

verify_invariants(d) ==
  /\ d.pinned <= d.resident
  /\ d.reserved + d.resident <= d.governed
  /\ d.unavailable <= d.total
=============================================================================
