------------------------------ MODULE Backoff -------------------------------
(***************************************************************************)
(* The exponential backoff with jitter of a client that waits for a delta  *)
(* (backoff.go), as operators on the state of a strategy.  Durations are   *)
(* signed words, as int64 is.                                              *)
(***************************************************************************)
EXTENDS Integers

CONSTANTS
    Delays,         \* the pairs of base and maximal delay of a strategy
    MaxAttempts,
    HalfWord        \* 2^63 in the code

ASSUME BackoffAssumption ==
    /\ HalfWord \in Nat \ {0}
    /\ Delays # {} /\ Delays \subseteq (1 .. HalfWord - 1) \X (1 .. HalfWord - 1)
    /\ MaxAttempts \in Nat

Word == -HalfWord .. HalfWord - 1

Wrap(n) == ((n + HalfWord) % (2 * HalfWord)) - HalfWord

\* Division of Go rounds to zero.
Half(n) == IF n >= 0 THEN n \div 2 ELSE -((-n) \div 2)

\* A strategy: its base and maximal delay, either of which may be the larger one,
\* the attempts made, and the last delay, 0 if there is none.
NewStrategies == {[base |-> d[1], max |-> d[2], attempt |-> 0, last |-> 0] : d \in Delays}
Strategies ==
    [base : 1 .. HalfWord - 1, max : 1 .. HalfWord - 1, attempt : 0..MaxAttempts, last : Word]

\* Mutant: one attempt too many.
ExhaustedLate(s) == s.attempt > MaxAttempts

Exhausted(s) == s.attempt >= MaxAttempts

Exponential(s) ==
    IF s.last # 0 /\ s.base >= s.max
    THEN s.last
    ELSE Wrap(s.base * Wrap(2^s.attempt))

\* rand.Int63n panics when its argument is not positive.
Panics(s) == Exponential(s) <= 0

Capped(s, d) == IF d > s.max THEN s.max ELSE d

\* Mutant: the delay is all jitter.
FullJitter(s, jitter) == jitter

Jittered(s, jitter) == Wrap(Wrap(Exponential(s) + jitter) - Half(Exponential(s)))

\* Mutant: the attempt is not counted.
SameAttempt(s, d) == [s EXCEPT !.last = d]

After(s, d) == [s EXCEPT !.attempt = @ + 1, !.last = d]

\* What Wait can leave behind when it sleeps and returns no error.
Waits(s) ==
    {After(s, Capped(s, Jittered(s, jitter))) : jitter \in 0 .. Exponential(s) - 1}
=============================================================================
