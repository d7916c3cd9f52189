------------------------------- MODULE Retry --------------------------------
(***************************************************************************)
(* One call of Client.do in internal/transmit: retry around a request, with *)
(* classify, parseRetryAfter and backoff, under the deadline of the upload  *)
(* and the timeout of each request.                                        *)
(*                                                                         *)
(* Time is counted in units; durations are signed integers of WordBits     *)
(* bits that wrap, as time.Duration is one of 64.                          *)
(***************************************************************************)
EXTENDS Integers

CONSTANTS
  Attempts,      \* the attempt budget, the first try included
  Deadline,      \* when the context of the upload ends, from the call on
  Timeout,       \* the timeout of one request
  Base,          \* retryBase
  MaxWait,       \* retryMax
  Second,        \* units in a second
  RetryAfterCap, \* the cap of parseRetryAfter
  WordBits,      \* bits of a duration
  Asked          \* numbers of seconds a Retry-After header may hold; 0 for none

\* What a shift to the left by n multiplies by.
Power2[n \in Nat] == IF n = 0 THEN 1 ELSE 2 * Power2[n - 1]

ASSUME RetryConstants ==
  /\ Attempts \in Nat \ {0}
  /\ Deadline \in Nat /\ Timeout \in Nat \ {0}
  /\ Base \in Nat \ {0} /\ MaxWait \in Nat /\ Base <= MaxWait
  /\ Second \in Nat \ {0} /\ RetryAfterCap \in Nat
  /\ WordBits \in Nat \ {0} /\ RetryAfterCap < Power2[WordBits - 1]
  /\ Asked \subseteq Nat

\* The signed value of the low WordBits bits of x.
Wrap(x) ==
  LET m == x % Power2[WordBits]
  IN  IF m >= Power2[WordBits - 1] THEN m - Power2[WordBits] ELSE m

\* Mutant: the cap is not applied.
IntervalUncapped(attempt) ==
  LET d == Wrap(Base * Power2[attempt - 1]) IN IF d <= 0 THEN MaxWait ELSE d

\* The interval backoff draws from: retryBase << (attempt - 1), capped, and
\* between its half and the whole of it.
Interval(attempt) ==
  LET d == Wrap(Base * Power2[attempt - 1]) IN IF d > MaxWait \/ d <= 0 THEN MaxWait ELSE d

Backoff(attempt) == LET d == Interval(attempt) IN (d \div 2)..(2 * (d \div 2))

\* parseRetryAfter, of a header that holds n seconds.
RetryAfter(n) ==
  LET d == Wrap(n * Second) IN IF d > RetryAfterCap THEN RetryAfterCap ELSE d

VARIABLES
  phase,    \* "try", "wait" or "done"
  attempt,  \* the attempt under way, or the last one made
  now,      \* time since the call began
  until,    \* when the timer fires, while waiting
  asked,    \* seconds the last answer asked to wait for; 0 for none (history)
  seen,     \* attempts the server processed (history)
  refused,  \* the server gave an answer that retrying cannot change (history)
  result    \* what retry returned: "none" so far

retryVars == <<phase, attempt, now, until, asked, seen, refused, result>>

Results == {"none", "ok", "permanent", "deadline", "gave up"}

RetryTypes ==
  /\ phase \in {"try", "wait", "done"}
  /\ attempt \in 1..Attempts
  /\ now \in 0..Deadline
  /\ until \in Nat
  /\ asked \in Asked \union {0}
  /\ seen \in 0..Attempts
  /\ refused \in BOOLEAN
  /\ result \in Results

RetryInit ==
  /\ phase = "try" /\ attempt = 1 /\ result = "none"
  /\ now = 0
  /\ until = 0 /\ asked = 0 /\ seen = 0 /\ refused = FALSE

Least(a, b) == IF a < b THEN a ELSE b

\* A request takes some time, no longer than its timeout and never past the
\* deadline of the upload: its context is derived from both.
Elapses(t) == t \in now..Least(now + Timeout, Deadline)

Return(r) == phase' = "done" /\ result' = r /\ UNCHANGED until

\* A retryable failure at time t, after which the server asked for n seconds.
Retryable(t, n) ==
  /\ asked' = n
  /\ IF t = Deadline
     THEN Return("deadline")
     ELSE IF attempt = Attempts
     THEN Return("gave up")
     ELSE /\ \E b \in Backoff(attempt) :
               until' = t + (IF n > 0 /\ RetryAfter(n) > b THEN RetryAfter(n) ELSE b)
          /\ phase' = "wait"
          /\ UNCHANGED result

Try(t) == phase = "try" /\ Elapses(t) /\ now' = t /\ UNCHANGED attempt

\* A 2xx with a body that decodes.
Succeeds ==
  \E t \in now..Deadline :
    /\ Try(t)
    /\ seen' = seen + 1
    /\ Return("ok")
    /\ UNCHANGED <<asked, refused>>

\* A 4xx other than 429, a 2xx whose body is not JSON, a malformed URL.
Refused ==
  \E t \in now..Deadline :
    /\ Try(t)
    /\ refused' = TRUE
    /\ seen' = seen + 1
    /\ Return("permanent")
    /\ UNCHANGED asked

\* 429, with a Retry-After header or without.
Throttled ==
  \E t \in now..Deadline, n \in Asked \union {0} :
    /\ Try(t)
    /\ Retryable(t, n)
    /\ UNCHANGED <<seen, refused>>

\* A 5xx, or a failure of the network: the server has processed the request
\* or not, and nothing tells.
Fails ==
  \E t \in now..Deadline, s \in {0, 1} :
    /\ Try(t)
    /\ seen' = seen + s
    /\ Retryable(t, 0)
    /\ UNCHANGED refused

\* The select: the timer, or the end of the context.  When both are due
\* either may be taken.
TimerFires ==
  /\ phase = "wait"
  /\ until <= Deadline
  /\ now' = until
  /\ attempt' = attempt + 1
  /\ phase' = "try"
  /\ UNCHANGED <<until, asked, seen, refused, result>>

\* Mutant: the wait hears of a context that has ended already, and of no other.
ContextUnheard ==
  /\ phase = "wait"
  /\ now = Deadline
  /\ Return("deadline")
  /\ UNCHANGED <<attempt, now, asked, seen, refused>>

ContextEnds ==
  /\ phase = "wait"
  /\ until >= Deadline
  /\ now' = Deadline
  /\ Return("deadline")
  /\ UNCHANGED <<attempt, asked, seen, refused>>

RetryNext ==
  \/ Succeeds \/ Refused \/ Throttled \/ Fails
  \/ TimerFires \/ ContextEnds

\* A request ends by its timeout and a timer fires.
RetrySpec == RetryInit /\ [][RetryNext]_retryVars /\ WF_retryVars(RetryNext)

-----------------------------------------------------------------------------
(* Properties.                                                             *)

\* A wait is long enough that a retry storm cannot collapse into an immediate
\* re-send, as long as the server asked up to the cap, and never longer than
\* the larger of the two caps: whatever the shift or the multiplication
\* overflows to.
WaitIsBounded ==
  phase = "wait" =>
    /\ until - now >= Base \div 2
    /\ until - now <= IF RetryAfterCap > MaxWait THEN RetryAfterCap ELSE MaxWait
    /\ asked > 0 /\ asked * Second <= RetryAfterCap => until - now >= asked * Second

\* The call returns.
Terminates == <>(phase = "done")
=============================================================================
