------------------------------ MODULE MCRetry -------------------------------
(* A small instance of Retry: durations of 7 bits, in which both the shift  *)
(* of backoff and the product of parseRetryAfter overflow.                 *)
EXTENDS Retry

\* Seconds that stay below the cap, exceed it, wrap to a negative duration
\* and wrap to a short one.
MCAskedSmall == {3, 9, 40, 65}
=============================================================================
