------------------------------- MODULE Serial -------------------------------
(***************************************************************************)
(* Serial-number arithmetic as the sources write it: an unsigned counter   *)
(* of width w wraps at M = 2^w, and two values are ordered by the sign of  *)
(* their difference, (int32_t)(a - b), (int16_t)(a - b).                   *)
(***************************************************************************)
EXTENDS Integers

\* (intN_t)(a - b) for N-bit unsigned a and b, M = 2^N.
Diff(a, b, M) == LET d == (a - b) % M
                 IN IF 2 * d < M THEN d ELSE d - M

\* (uintN_t)(a + n).
Plus(a, n, M) == (a + n) % M

\* Time between two readings of a clock that wraps at W.
nano_time_elapsed(now, earlier, W) == (now - earlier) % W
=============================================================================
