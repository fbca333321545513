------------------------------ MODULE Backoff ------------------------------
(***************************************************************************)
(* The wait before the next poll (backoff.go), in seconds. The injected    *)
(* randomness makes each delay a set: every whole number of seconds in the *)
(* jittered range, for seconds that are multiples of 5.                    *)
(***************************************************************************)
EXTENDS Integers

CONSTANTS
  BackoffBase,  \* backoffBaseSeconds
  BackoffCap,   \* backoffCapSeconds
  MaxDuration   \* the greatest time.Duration, in seconds

\* A capped delay with its jitter fits a Duration.
ASSUME BackoffAssumption ==
  /\ BackoffBase \in Nat /\ BackoffCap \in Nat /\ MaxDuration \in Nat
  /\ BackoffBase <= BackoffCap
  /\ BackoffCap + BackoffCap \div 5 <= MaxDuration

Least(a, b) == IF a < b THEN a ELSE b

\* time.Duration(seconds * float64(time.Second)): a value that does not fit
\* becomes the least or the greatest Duration, by the platform.
Duration(seconds) ==
  IF seconds <= MaxDuration THEN {seconds} ELSE {-MaxDuration, MaxDuration}

\* The random of newClient.
RandomInRange(low, high) == IF low >= high THEN {low} ELSE low..high

\* +-20%, backoffJitterFraction.
Jittered(seconds) ==
  LET spread == seconds \div 5 IN
  UNION {Duration(s) : s \in RandomInRange(seconds - spread, seconds + spread)}

RetryDelay(consecutiveFailures) ==
  IF consecutiveFailures <= 0 THEN {0}
  ELSE LET exponent == Least(consecutiveFailures - 1, 32)
       IN Jittered(Least(BackoffBase * 2 ^ exponent, BackoffCap))

PollDelay(interval) == Jittered(interval)

\* Mutant: whatever the server says is obeyed.
MutantHintUncapped(retryAfterSeconds, consecutiveFailures) ==
  IF retryAfterSeconds <= 0 THEN RetryDelay(consecutiveFailures)
  ELSE {retryAfterSeconds}

RetryDelayWithServerHint(retryAfterSeconds, consecutiveFailures) ==
  IF retryAfterSeconds <= 0 THEN RetryDelay(consecutiveFailures)
  ELSE {Least(retryAfterSeconds, BackoffCap)}

\* The timer fires at once for a delay that is not positive.
TimerRange(delays) == {IF delay > 0 THEN delay ELSE 0 : delay \in delays}
=============================================================================
