----------------------------- MODULE PullProofs -----------------------------
(***************************************************************************)
(* Proofs about Pull: the bounds of the waits for words, delays and        *)
(* numbers of attempts of any size, whatever overflows, the accounting of  *)
(* what is read, and the limit on volume, for any artifacts and any        *)
(* period.                                                                 *)
(***************************************************************************)
EXTENDS Pull, DataLemmas

(***************************************************************************)
(* The arithmetic of one wait                                              *)
(***************************************************************************)

\* Wrapping around gives a word, leaves a word as it is, and takes what is too
\* large by less than the number of words down by that number, and the other way.
LEMMA Wrapped ==
    ASSUME NEW n \in Int
    PROVE  /\ Wrap(n) \in Word
           /\ n \in Word => Wrap(n) = n
           /\ n \in HalfWord .. 3 * HalfWord - 1 => Wrap(n) = n - 2 * HalfWord
           /\ n \in -3 * HalfWord .. -HalfWord - 1 => Wrap(n) = n + 2 * HalfWord
<1> DEFINE m == 2 * HalfWord
<1>1. HalfWord \in Nat \ {0} /\ m \in Nat \ {0}
  BY BackoffAssumption
<1>2. \A x \in Int : x % m \in 0 .. m - 1
  BY <1>1
<1>3. \A x \in 0 .. m - 1 : x % m = x
  BY <1>1
<1>4. \A x \in 0 .. m - 1 : (x + m) % m = x /\ (x - m) % m = x
  BY <1>1
<1> HIDE DEF m
<1>5. Wrap(n) = ((n + HalfWord) % m) - HalfWord
  BY DEF Wrap, m
<1>6. Wrap(n) \in Word
  <2> DEFINE r == (n + HalfWord) % m
  <2>1. n + HalfWord \in Int
    BY <1>1
  <2>2. r \in 0 .. m - 1
    BY <1>2, <2>1
  <2> HIDE DEF r
  <2>3. r - HalfWord \in Word
    BY <1>1, <2>2 DEF Word, m
  <2> QED BY <1>5, <2>3 DEF r
<1>7. CASE n \in Word
  BY <1>1, <1>3, <1>5, <1>6, <1>7 DEF Word, m
<1>8. CASE n \in HalfWord .. 3 * HalfWord - 1
  <2> DEFINE x == n + HalfWord - m
  <2>1. x \in 0 .. m - 1 /\ x + m = n + HalfWord
    BY <1>1, <1>8 DEF m
  <2>2. (x + m) % m = x
    BY <1>4, <2>1
  <2> QED BY <1>1, <1>5, <1>6, <1>8, <2>1, <2>2 DEF Word, m
<1>9. CASE n \in -3 * HalfWord .. -HalfWord - 1
  <2> DEFINE x == n + HalfWord + m
  <2>1. x \in 0 .. m - 1 /\ x - m = n + HalfWord
    BY <1>1, <1>9 DEF m
  <2>2. (x - m) % m = x
    BY <1>4, <2>1
  <2> QED BY <1>1, <1>5, <1>6, <1>9, <2>1, <2>2 DEF Word, m
<1> QED BY <1>6, <1>7, <1>8, <1>9

\* The exponential delay is a word.
LEMMA ExponentialType ==
    ASSUME NEW s \in Strategies
    PROVE  Exponential(s) \in Word /\ Word \subseteq Int
<1>1. /\ HalfWord \in Nat \ {0} /\ MaxAttempts \in Nat /\ Word \subseteq Int
      /\ s.attempt \in Nat /\ s.last \in Word /\ s.base \in Nat
  BY BackoffAssumption DEF Strategies, Word
<1>2. 2^s.attempt \in Int
  BY <1>1
<1>3. Wrap(2^s.attempt) \in Int
  BY <1>1, <1>2, Wrapped
<1>4. s.base * Wrap(2^s.attempt) \in Int
  BY <1>1, <1>3
<1>5. Wrap(s.base * Wrap(2^s.attempt)) \in Word
  BY <1>4, Wrapped
<1> QED BY <1>1, <1>5 DEF Exponential

\* What jitter makes of a delay is a word and not zero.  When delay and jitter fit
\* a word it is positive and at least half of the delay, although the sum of
\* both, which comes first, may not fit one.
LEMMA JitterIsBounded ==
    ASSUME NEW s \in Strategies, ~Panics(s), NEW jitter \in 0 .. Exponential(s) - 1
    PROVE  /\ Jittered(s, jitter) \in Word \ {0}
           /\ NoOverflow(Exponential(s)) =>
                 Jittered(s, jitter) >= 1 /\ 2 * Jittered(s, jitter) >= Exponential(s)
<1> DEFINE e == Exponential(s)
           h == e \div 2
           sum == e + jitter
<1>1. HalfWord \in Nat \ {0} /\ e \in 1 .. HalfWord - 1
  BY BackoffAssumption, ExponentialType DEF Panics, Word
<1>2. /\ Half(e) = h /\ h \in Nat /\ 2 * h <= e /\ e <= 2 * h + 1
      /\ sum \in e .. 2 * e - 1
  BY <1>1 DEF Half
<1>3. Jittered(s, jitter) = Wrap(Wrap(sum) - h)
  BY <1>2 DEF Jittered
<1> HIDE DEF e, h, sum
<1>4. CASE sum < HalfWord
  <2>1. sum \in Word /\ sum - h \in Word /\ sum - h >= 1 /\ 2 * (sum - h) >= e
    BY <1>1, <1>2, <1>4 DEF Word
  <2>2. Jittered(s, jitter) = sum - h
    BY <1>1, <1>2, <1>3, <2>1, Wrapped
  <2> QED BY <1>1, <1>2, <2>1, <2>2 DEF e
<1>5. CASE sum >= HalfWord
  <2> DEFINE r == sum - 2 * HalfWord - h
  <2>1. Wrap(sum) = sum - 2 * HalfWord
    BY <1>1, <1>2, <1>5, Wrapped
  <2>2. Jittered(s, jitter) = Wrap(r) /\ r \in Int /\ r < 0
    BY <1>1, <1>2, <1>3, <2>1
  <2>3. CASE r >= -HalfWord
    <3>1. Jittered(s, jitter) = r
      BY <1>1, <2>2, <2>3, Wrapped DEF Word
    <3>2. ~(3 * e <= 2 * HalfWord)
      BY <1>1, <1>2, <2>3
    <3> QED BY <1>1, <2>2, <2>3, <3>1, <3>2 DEF NoOverflow, Word, e
  <2>4. CASE r < -HalfWord
    <3>1. r \in -3 * HalfWord .. -HalfWord - 1
      BY <1>1, <1>2, <1>5, <2>2, <2>4
    <3>2. Jittered(s, jitter) = sum - h
      BY <1>1, <1>2, <2>2, <3>1, Wrapped
    <3>3. sum - h >= 1 /\ 2 * (sum - h) >= e /\ sum - h < HalfWord
      BY <1>1, <1>2, <2>4
    <3> QED BY <1>1, <1>2, <3>2, <3>3 DEF Word, e
  <2> QED BY <1>1, <1>2, <2>3, <2>4
<1> QED BY <1>1, <1>2, <1>4, <1>5

\* A strategy that may come about: it is one of those there are, and it has a last
\* delay when it has made an attempt.
Sound(s) ==
    /\ s \in Strategies
    /\ <<s.base, s.max>> \in Delays
    /\ s.attempt = 0 <=> s.last = 0

\* A new client has made no attempt.
LEMMA NewIsSound == \A s \in NewStrategies : Sound(s)
<1> SUFFICES ASSUME NEW d \in Delays
             PROVE  Sound([base |-> d[1], max |-> d[2], attempt |-> 0, last |-> 0])
  BY DEF NewStrategies
<1>1. /\ d \in (1 .. HalfWord - 1) \X (1 .. HalfWord - 1) /\ d = <<d[1], d[2]>>
      /\ 0 \in Word /\ 0 \in 0..MaxAttempts
  BY BackoffAssumption DEF Word
<1> QED BY <1>1 DEF Sound, Strategies

\* As long as delay and jitter fit a word, the exponential delay is the delay.
LEMMA ExponentialIsDelay ==
    ASSUME NEW s, Sound(s), NoOverflow(Delay(s))
    PROVE  Exponential(s) = Delay(s)
<1> DEFINE p == 2^s.attempt
<1>1. /\ HalfWord \in Nat \ {0} /\ MaxAttempts \in Nat
      /\ s.attempt \in Nat /\ s.last \in Int /\ s.base \in Nat \ {0} /\ s.max \in Nat
      /\ s.attempt = 0 <=> s.last = 0
  BY BackoffAssumption DEF Sound, Strategies, Word
<1>2. p \in Int
  BY <1>1
<1> HIDE DEF p
<1>3. CASE s.base < s.max \/ s.attempt = 0
  <2>1. Delay(s) = s.base * p
    BY <1>3 DEF Delay, p
  <2>2. 0 < s.base * p /\ 3 * (s.base * p) <= 2 * HalfWord
    BY <2>1 DEF NoOverflow
  <2>3. 0 < p /\ p <= s.base * p
    BY <1>1, <1>2, <2>2
  <2>4. p \in Word /\ s.base * p \in Word
    BY <1>1, <1>2, <2>2, <2>3 DEF Word
  <2>5. Wrap(s.base * Wrap(p)) = s.base * p
    BY <1>1, <1>2, <2>4, Wrapped
  <2>6. Exponential(s) = Wrap(s.base * Wrap(p))
    BY <1>1, <1>3 DEF Exponential, p
  <2> QED BY <2>1, <2>5, <2>6
<1>4. CASE ~(s.base < s.max \/ s.attempt = 0)
  BY <1>1, <1>4 DEF Exponential, Delay
<1> QED BY <1>3, <1>4

\* One wait: what it leaves, and for how long it sleeps.
LEMMA WaitIsBounded ==
    ASSUME NEW s, Sound(s), ~Exhausted(s), ~Panics(s), NEW t \in Waits(s)
    PROVE  /\ Sound(t) /\ t.base = s.base /\ t.max = s.max
           /\ t.last <= s.max
           /\ NoOverflow(Delay(s)) =>
                 t.last >= 1 /\ (t.last = s.max \/ 2 * t.last >= Delay(s))
<1>1. /\ s \in Strategies /\ HalfWord \in Nat \ {0} /\ MaxAttempts \in Nat
      /\ s.attempt \in 0..MaxAttempts /\ s.max \in 1 .. HalfWord - 1
  BY BackoffAssumption DEF Sound, Strategies
<1>2. PICK jitter \in 0 .. Exponential(s) - 1 :
        t = After(s, Capped(s, Jittered(s, jitter)))
  BY DEF Waits
<1> DEFINE j == Jittered(s, jitter)
           c == Capped(s, j)
<1>3. /\ j \in Word \ {0}
      /\ NoOverflow(Exponential(s)) => j >= 1 /\ 2 * j >= Exponential(s)
  BY <1>1, JitterIsBounded
<1> HIDE DEF j
<1>4. /\ c \in Word \ {0} /\ c <= s.max
      /\ j >= 1 => c >= 1 /\ (c = s.max \/ c = j)
  BY <1>1, <1>3 DEF Capped, Word
<1> HIDE DEF c
<1>5. s.attempt + 1 \in 1 .. MaxAttempts
  BY <1>1 DEF Exhausted
<1>6. /\ t = [s EXCEPT !.attempt = @ + 1, !.last = c]
      /\ t.base = s.base /\ t.max = s.max /\ t.attempt = s.attempt + 1 /\ t.last = c
  BY <1>1, <1>2 DEF After, Strategies, c, j
<1>7. t \in Strategies
  <2>1. s.attempt + 1 \in 0..MaxAttempts /\ c \in Word
    BY <1>1, <1>4, <1>5
  <2> QED BY <1>1, <1>6, <2>1 DEF Strategies
<1>8. Sound(t)
  BY <1>4, <1>5, <1>6, <1>7 DEF Sound
<1>9. ASSUME NoOverflow(Delay(s))
      PROVE  t.last >= 1 /\ (t.last = s.max \/ 2 * t.last >= Delay(s))
  <2>1. Exponential(s) = Delay(s)
    BY <1>9, ExponentialIsDelay
  <2> QED BY <1>3, <1>4, <1>6, <1>9, <2>1
<1> QED BY <1>4, <1>6, <1>8, <1>9

(***************************************************************************)
(* The waits of a client over its life                                     *)
(***************************************************************************)

\* Only a wait changes a strategy, or goes on from "wait" to "ask", or panics.
LEMMA StrategyStep ==
    ASSUME [Next]_vars
    PROVE  \/ /\ pc = "wait" /\ pc' = "ask"
              /\ ~Exhausted(strategy) /\ ~Panics(strategy) /\ strategy' \in Waits(strategy)
           \/ /\ pc = "wait" /\ pc' = "panic" /\ strategy' = strategy
              /\ ~Exhausted(strategy) /\ Panics(strategy)
           \/ /\ strategy' = strategy \/ strategy' \in NewStrategies
              /\ ~(pc = "wait" /\ pc' = "ask") /\ (pc' = "panic" => pc = "panic")
<1> USE DEF Goto
<1>1. CASE Wait
  BY <1>1 DEF Wait
<1>2. CASE Begin \/ Accepted \/ Available \/ Refused \/ GiveUp \/ Return
  BY <1>2 DEF Begin, Accepted, Available, Refused, GiveUp, Return
<1>3. CASE (Validate \/ Inspect \/ Close \/ Closed \/ Read \/ ReadError) /\ UNCHANGED strategy
  BY <1>3 DEF Validate, Inspect, Close, Closed, Read, ReadError
<1>4. CASE (Observes \/ Tick) /\ UNCHANGED strategy
  BY <1>4 DEF Observes, Take, WriteStats, Cut, WriteFails, Wake, Stop, Tick
<1>5. CASE Other /\ UNCHANGED strategy
  BY <1>5 DEF Other, OtherValidates, OtherOpens, OtherWrites, OtherCuts, OtherStops
<1>6. CASE Crash
  BY <1>6 DEF Crash
<1>7. CASE UNCHANGED vars
  BY <1>7 DEF vars
<1> QED BY <1>1, <1>2, <1>3, <1>4, <1>5, <1>6, <1>7 DEF Next, Works

\* A client never leaves the sound states of its strategy.
LEMMA StrategyStaysSound == Spec => []Sound(strategy)
<1>1. Init => Sound(strategy)
  BY NewIsSound DEF Init
<1>2. Sound(strategy) /\ [Next]_vars => Sound(strategy)'
  <2> SUFFICES ASSUME Sound(strategy), [Next]_vars PROVE Sound(strategy')
    BY DEF Sound
  <2> QED BY StrategyStep, WaitIsBounded, NewIsSound
<1> QED BY <1>1, <1>2, PTL DEF Spec

\* Every wait of every client sleeps within its bounds, for any base and maximal
\* delay, either of which may be the larger one, any number of attempts and any
\* size of a word: never longer than the maximum, and as long as delay and jitter
\* fit a word, for at least half of the delay.
THEOREM WaitTheorem == Spec => WaitsInBounds
<1> DEFINE A ==
      pc = "wait" /\ pc' = "ask" =>
          LET slept == strategy'.last
          IN  /\ slept <= strategy.max
              /\ NoOverflow(Delay(strategy)) =>
                    /\ slept >= 1
                    /\ slept = strategy.max \/ 2 * slept >= Delay(strategy)
<1>1. Sound(strategy) /\ [Next]_vars => A
  <2> SUFFICES ASSUME Sound(strategy), [Next]_vars, pc = "wait", pc' = "ask" PROVE A
    OBVIOUS
  <2>1. ~Exhausted(strategy) /\ ~Panics(strategy) /\ strategy' \in Waits(strategy)
    BY StrategyStep
  <2> QED BY <2>1, WaitIsBounded
<1>2. Sound(strategy) /\ [Next]_vars => [A]_vars
  BY <1>1
<1> HIDE DEF A
<1>3. Spec => [][A]_vars
  BY <1>2, StrategyStaysSound, PTL DEF Spec
<1> QED BY <1>3 DEF WaitsInBounds, A

\* The delays of all attempts, and the jitter on top, fit a word.
Roomy == \A d \in Delays : \A n \in 0 .. MaxAttempts - 1 : NoOverflow(d[1] * 2^n)

\* Then the delay before each attempt fits.
LEMMA DelayFits ==
    ASSUME Roomy, NEW s, Sound(s), s.last >= 0, s.last <= s.max, ~Exhausted(s)
    PROVE  NoOverflow(Delay(s)) /\ ~Panics(s)
<1>1. /\ <<s.base, s.max>> \in Delays /\ HalfWord \in Nat \ {0} /\ MaxAttempts \in Nat
      /\ s.base \in Nat \ {0} /\ s.max \in Nat \ {0} /\ s.last \in Int
      /\ s.attempt \in 0..MaxAttempts /\ (s.attempt = 0 <=> s.last = 0)
  BY BackoffAssumption DEF Sound, Strategies, Word
<1>2. s.attempt \in 0 .. MaxAttempts - 1 /\ 0 \in 0 .. MaxAttempts - 1
  BY <1>1 DEF Exhausted
<1>3. NoOverflow(s.base * 2^s.attempt) /\ NoOverflow(s.base * 2^0)
  BY <1>1, <1>2 DEF Roomy
<1>4. ASSUME s.base < s.max \/ s.attempt = 0 PROVE NoOverflow(Delay(s))
  <2>1. Delay(s) = s.base * 2^s.attempt
    BY <1>4 DEF Delay
  <2> DEFINE q == s.base * 2^s.attempt
  <2>2. NoOverflow(q)
    BY <1>3
  <2> HIDE DEF q
  <2>3. Delay(s) = q
    BY <2>1 DEF q
  <2> QED BY <2>2, <2>3
<1>5. ASSUME ~(s.base < s.max \/ s.attempt = 0) PROVE NoOverflow(Delay(s))
  <2> DEFINE p == 2^0
  <2>1. p \in Int
    OBVIOUS
  <2> HIDE DEF p
  <2>2. 0 < s.base * p /\ 3 * (s.base * p) <= 2 * HalfWord
    BY <1>3 DEF NoOverflow, p
  <2>3. s.base <= s.base * p
    <3>1. 0 < p
      BY <1>1, <2>1, <2>2
    <3> QED BY <1>1, <2>1, <3>1
  <2>4. 0 < s.last /\ s.last <= s.base
    BY <1>1, <1>5
  <2> DEFINE q == s.base * p
  <2>5. q \in Int /\ s.base <= q /\ 3 * q <= 2 * HalfWord
    BY <1>1, <2>1, <2>2, <2>3
  <2> HIDE DEF q
  <2>6. Delay(s) = s.last
    BY <1>5 DEF Delay
  <2> QED BY <1>1, <2>4, <2>5, <2>6 DEF NoOverflow
<1>6. NoOverflow(Delay(s))
  BY <1>4, <1>5
<1>7. Exponential(s) = Delay(s)
  BY <1>6, ExponentialIsDelay
<1>8. Delay(s) \in Int
  BY <1>1, <1>7, ExponentialType DEF Sound
<1> QED BY <1>6, <1>7, <1>8 DEF Panics, NoOverflow

\* A Wait never panics as long as all delays fit: overflow is the only reason
\* for which NeverPanics is violated with the attempts of the default strategy.
THEOREM NoPanicTheorem == ASSUME Roomy PROVE Spec => []NeverPanics
<1> DEFINE Inv == /\ Sound(strategy) /\ pc # "panic"
                  /\ strategy.last >= 0 /\ strategy.last <= strategy.max
<1>1. \A s \in NewStrategies : Sound(s) /\ s.last >= 0 /\ s.last <= s.max
  BY NewIsSound, BackoffAssumption DEF NewStrategies
<1>2. Init => Inv
  BY <1>1 DEF Init
<1>3. Inv /\ [Next]_vars => Inv'
  <2> SUFFICES ASSUME Inv, [Next]_vars
               PROVE  /\ Sound(strategy') /\ pc' # "panic"
                      /\ strategy'.last >= 0 /\ strategy'.last <= strategy'.max
    BY DEF Sound
  <2>1. CASE pc = "wait" /\ ~Exhausted(strategy)
             /\ (strategy' \in Waits(strategy) \/ Panics(strategy))
    <3>1. NoOverflow(Delay(strategy)) /\ ~Panics(strategy)
      BY <2>1, DelayFits
    <3>2. /\ strategy' \in Waits(strategy)
          /\ Sound(strategy') /\ strategy'.max = strategy.max
          /\ strategy'.last <= strategy.max /\ strategy'.last >= 1
      BY <2>1, <3>1, WaitIsBounded
    <3>3. strategy'.last \in Int
      BY <3>2, BackoffAssumption DEF Sound, Strategies, Word
    <3> QED BY <3>1, <3>2, <3>3, StrategyStep
  <2>2. CASE strategy' = strategy \/ strategy' \in NewStrategies
    BY <1>1, <2>1, <2>2, StrategyStep
  <2> QED BY <2>1, <2>2, StrategyStep
<1>4. Inv => NeverPanics
  BY DEF NeverPanics
<1> QED BY <1>2, <1>3, <1>4, PTL DEF Spec

(***************************************************************************)
(* What is read is counted                                                 *)
(***************************************************************************)

Blob == {"read", "over", "closing"}

\* The observer lives as long as a blob is read, what it holds is what it is
\* about to write, and a chunk that is missing is the last one; what it holds and
\* what is in the counter has been read.
Counted ==
    /\ queue \in Seq(Nat) /\ left \in Nat
    /\ counter \in Nat /\ held \in Nat /\ unwritten \in Nat
    /\ Reading => queue # <<>>
    /\ observer = "none" <=> pc \notin Blob
    /\ observer # "write" => held = 0
    /\ pc \notin Blob => unwritten = 0
    /\ pc \in Blob => held + counter <= unwritten
    /\ NoReadIsLost

\* Nothing is counted before the first download.
LEMMA InitCounted == Init => Counted
BY DEF Init, VolumeInit, Counted, Blob, Reading, NoReadIsLost

\* Reads, swaps, writes and failures keep the account of a blob.
LEMMA NextCounted == Counted /\ [Next]_vars => Counted'
<1> SUFFICES ASSUME Counted, [Next]_vars PROVE Counted'
  OBVIOUS
<1> USE DEF Counted, Blob, Reading, NoReadIsLost, Goto, Observer
<1>1. CASE Begin \/ Accepted \/ Available \/ Refused \/ GiveUp \/ Wait \/ Return
  BY <1>1 DEF Begin, Accepted, Available, Refused, GiveUp, Wait, Return, volumeVars,
              download
<1>2. CASE Validate
  <2>1. queue' \in Seq(Nat)
    BY <1>2, VolumeAssumption DEF Validate
  <2> QED BY <1>2, <2>1 DEF Validate
<1>3. CASE Inspect
  <2>1. left' \in Nat
    BY <1>3 DEF Inspect
  <2> QED BY <1>3, <2>1 DEF Inspect
<1>4. CASE Read \/ ReadError
  BY <1>4 DEF Read, ReadError
<1>5. CASE Close
  <2>1. queue' = Tail(queue) \/ queue' = <<>>
    BY <1>5 DEF Close
  <2>2. queue # <<>>
    BY <1>5 DEF Close
  <2>3. Tail(queue) \in Seq(Nat)
    BY <2>2
  <2>4. <<>> \in Seq(Nat)
    OBVIOUS
  <2>5. queue' \in Seq(Nat)
    BY <2>1, <2>3, <2>4, Zenon
  <2> QED BY <1>5, <2>5 DEF Close
<1>6. CASE Closed
  BY <1>6 DEF Closed
<1>7. CASE Take
  BY <1>7 DEF Take
<1>8. CASE WriteStats \/ Cut
  BY <1>8 DEF WriteStats, Cut
<1>9. CASE WriteFails
  BY <1>9 DEF WriteFails
<1>10. CASE Wake \/ Stop
  BY <1>10 DEF Wake, Stop
<1>11. CASE Tick
  BY <1>11 DEF Tick
<1>12. CASE Other
  BY <1>12 DEF Other, OtherValidates, OtherOpens, OtherWrites, OtherCuts, OtherStops,
               download
<1>13. CASE Crash
  BY <1>13 DEF Crash, VolumeCrash
<1>14. CASE UNCHANGED vars
  BY <1>14 DEF vars, volumeVars, download
<1> QED BY <1>1, <1>2, <1>3, <1>4, <1>5, <1>6, <1>7, <1>8, <1>9, <1>10, <1>11, <1>12,
           <1>13, <1>14 DEF Next, Works, Observes

\* No chunk that is read gets lost between Read, Swap and the file, but for the
\* one that comes with an error or io.EOF, for artifacts and limits of any size.
THEOREM CountTheorem == Spec => []NoReadIsLost
<1>1. Counted => NoReadIsLost
  BY DEF Counted
<1> QED BY <1>1, InitCounted, NextCounted, PTL DEF Spec

(***************************************************************************)
(* The sizes of blobs, summed up                                           *)
(***************************************************************************)

\* Sizes are summed up by a fold.
LEMMA SumOfAdds ==
    ASSUME NEW q \in Seq(Nat)
    PROVE  SumOf(q) = Total(DOMAIN q, q) /\ SumOf(q) \in Nat
<1> DEFINE S == DOMAIN q
           Choice(s) == CHOOSE x \in s : TRUE
           Step(g) == [s \in SUBSET S |-> IF s = {} THEN 0
                                          ELSE q[Choice(s)] + g[s \ {Choice(s)}]]
           total == [s \in SUBSET S |-> Total(s, q)]
<1>1. SumOf(q) = (CHOOSE g : g = Step(g))[S]
  BY DEF SumOf, FoldSeq, FoldFunction, FoldFunctionOnSet, MapThenFoldSet
<1>2. \A s \in SUBSET S : s # {} => Choice(s) \in s
  OBVIOUS
<1>3. IsFiniteSet(S) /\ \A x \in S : q[x] \in Nat
  <2>1. S = 1 .. Len(q) /\ Len(q) \in Nat
    OBVIOUS
  <2>2. IsFiniteSet(1 .. Len(q))
    BY <2>1, FS_Interval
  <2>3. \A x \in 1 .. Len(q) : q[x] \in Nat
    OBVIOUS
  <2> QED BY <2>1, <2>2, <2>3
<1> HIDE DEF Choice, S
<1>4. total = Step(total)
  <2>1. \A s \in SUBSET S : s # {} => Total(s, q) = q[Choice(s)] + Total(s \ {Choice(s)}, q)
    <3> SUFFICES ASSUME NEW s \in SUBSET S, s # {}
                 PROVE  Total(s, q) = q[Choice(s)] + Total(s \ {Choice(s)}, q)
      OBVIOUS
    <3>1. Choice(s) \in s /\ q[Choice(s)] \in Nat
      BY <1>2, <1>3
    <3>2. /\ Total(s, q) = Total(s \ {Choice(s)}, q) + q[Choice(s)]
          /\ Total(s \ {Choice(s)}, q) \in Nat
      BY <1>3, <3>1, TotalOfPart
    <3> QED BY <3>1, <3>2
  <2>2. Total({}, q) = 0
    BY TotalOfNothing
  <2> QED BY <2>1, <2>2
<1>5. ASSUME NEW g, g = Step(g) PROVE g = total
  <2>1. g[{}] = 0
    BY <1>5
  <2>2. \A s \in SUBSET S : s # {} =>
             \E x \in s : g[s \ {x}] \in Nat => g[s] = g[s \ {x}] + q[x]
    <3> SUFFICES ASSUME NEW s \in SUBSET S, s # {}, g[s \ {Choice(s)}] \in Nat
                 PROVE  g[s] = g[s \ {Choice(s)}] + q[Choice(s)]
      BY <1>2
    <3>1. g[s] = q[Choice(s)] + g[s \ {Choice(s)}]
      BY <1>5
    <3>2. q[Choice(s)] \in Nat
      BY <1>2, <1>3
    <3> QED BY <3>1, <3>2
  <2>3. \A s \in SUBSET S : g[s] = Total(s, q)
    <3>1. Adds(g, S, q)
      BY <2>1, <2>2, Zenon DEF Adds
    <3> QED BY <1>3, <3>1, OneSum
  <2> QED BY <1>5, <2>3
<1> HIDE DEF Step
<1>6. (CHOOSE g : g = Step(g)) = total
  BY <1>4, <1>5
<1>7. Total(S, q) \in Nat
  BY <1>3, TotalIsFinite
<1> QED BY <1>1, <1>6, <1>7 DEF S

\* The first size and the others.
LEMMA SumOfTail ==
    ASSUME NEW q \in Seq(Nat), q # <<>>
    PROVE  /\ SumOf(q) = Head(q) + SumOf(Tail(q))
           /\ Head(q) \in Nat /\ Tail(q) \in Seq(Nat) /\ SumOf(Tail(q)) \in Nat
<1> DEFINE t == Tail(q)
           rest == (DOMAIN q) \ {1}
<1>1. /\ t \in Seq(Nat) /\ Head(q) = q[1] /\ q[1] \in Nat
      /\ DOMAIN q = 1 .. Len(q) /\ Len(q) \in Nat \ {0}
      /\ DOMAIN t = 1 .. (Len(q) - 1) /\ \A i \in DOMAIN t : t[i] = q[i + 1]
  OBVIOUS
<1> HIDE DEF t
<1>2. /\ IsFiniteSet(DOMAIN q) /\ \A i \in DOMAIN q : q[i] \in Nat
      /\ IsFiniteSet(DOMAIN t) /\ \A i \in DOMAIN t : t[i] \in Nat
  <2>1. IsFiniteSet(1 .. Len(q)) /\ IsFiniteSet(1 .. (Len(q) - 1))
    BY <1>1, FS_Interval
  <2>2. \A i \in DOMAIN q : q[i] \in Nat
    OBVIOUS
  <2> QED BY <1>1, <2>1, <2>2
<1>3. /\ Total(DOMAIN q, q) = Total(rest, q) + q[1]
      /\ Total(rest, q) \in Nat
  <2>1. 1 \in DOMAIN q /\ DOMAIN q \in SUBSET DOMAIN q
    BY <1>1
  <2> QED BY <1>2, <2>1, TotalOfPart
<1>4. IsFiniteSet(Units(rest, q)) /\ IsFiniteSet(Units(DOMAIN t, t))
  BY <1>2, TotalIsFinite, FS_RemoveElement
<1>5. Total(rest, q) <= Total(DOMAIN t, t)
  <2> DEFINE place == [i \in rest |-> i - 1]
  <2>1. \A i \in rest : i \in 2 .. Len(q) /\ i - 1 \in DOMAIN t
    BY <1>1
  <2>2. place \in [rest -> DOMAIN t]
    BY <2>1
  <2>3. \A i, j \in rest : place[i] = place[j] => i = j
    BY <2>1
  <2>4. \A i \in rest : q[i] = t[place[i]]
    <3> SUFFICES ASSUME NEW i \in rest PROVE q[i] = t[i - 1]
      OBVIOUS
    <3>1. i - 1 \in DOMAIN t /\ (i - 1) + 1 = i
      BY <2>1
    <3> QED BY <1>1, <3>1
  <2> HIDE DEF place, rest
  <2> QED BY <1>4, <2>2, <2>3, <2>4, TotalOfImage
<1>6. Total(DOMAIN t, t) <= Total(rest, q)
  <2> DEFINE place == [i \in DOMAIN t |-> i + 1]
  <2>1. \A i \in DOMAIN t : i \in Nat /\ i + 1 \in rest
    <3> SUFFICES ASSUME NEW i \in 1 .. (Len(q) - 1)
                 PROVE  i \in Nat /\ i + 1 \in (1 .. Len(q)) \ {1}
      BY <1>1
    <3> DEFINE n == Len(q)
    <3>1. n \in Nat
      BY <1>1
    <3> HIDE DEF n
    <3> QED BY <3>1
  <2>2. place \in [DOMAIN t -> rest]
    BY <2>1
  <2>3. \A i, j \in DOMAIN t : place[i] = place[j] => i = j
    BY <2>1
  <2>4. \A i \in DOMAIN t : t[i] = q[place[i]]
    BY <1>1
  <2> HIDE DEF place, rest
  <2> QED BY <1>4, <2>2, <2>3, <2>4, TotalOfImage
<1>7. /\ SumOf(q) = Total(DOMAIN q, q)
      /\ SumOf(t) = Total(DOMAIN t, t) /\ SumOf(t) \in Nat
  BY <1>1, SumOfAdds
<1>8. SumOf(q) = Head(q) + SumOf(t)
  BY <1>1, <1>3, <1>5, <1>6, <1>7
<1> QED BY <1>1, <1>7, <1>8 DEF t

(***************************************************************************)
(* The volume of the files, for any contents they may have.                *)
(***************************************************************************)

Contents == [Ages -> Nat \cup {Absent, Torn, Mixed}]

Files(st) == {a \in 0 .. Period : st[a] \in Nat}

Volume(st) == Total(Files(st), st)

Summed(st) == FoldSet(LAMBDA a, sum : sum + st[a], 0,
                      {a \in Ages : ~Old(a) /\ st[a] \in Nat})

\* What SumUpDownloadStats adds up is the volume, before a step and after it.
LEMMA ConsumedIsVolume ==
    /\ stats \in Contents => Consumed = Volume(stats)
    /\ stats' \in Contents => Consumed' = Volume(stats')
<1> SUFFICES ASSUME NEW st \in Contents
             PROVE  Summed(st) = Volume(st)
  <2>1. Consumed = Summed(stats)
    BY DEF Consumed, Summed, FoldSet, MapThenFoldSet
  <2>2. Consumed' = Summed(stats')
    BY DEF Consumed, Summed, FoldSet, MapThenFoldSet
  <2> QED BY <2>1, <2>2
<1>1. Period \in Nat
  BY VolumeAssumption
<1>2. {a \in Ages : ~Old(a) /\ st[a] \in Nat} = Files(st)
  BY <1>1 DEF Ages, Old, Files
<1>3. IsFiniteSet(Files(st))
  <2>1. IsFiniteSet(0 .. Period) /\ Files(st) \in SUBSET (0 .. Period)
    BY <1>1, FS_Interval DEF Files
  <2> QED BY <2>1, FS_Subset
<1>4. \A a \in Files(st) : st[a] \in Nat
  BY DEF Files
<1> QED BY <1>2, <1>3, <1>4, FoldSetAdds, Zenon DEF Volume, Summed

\* The volume is a number.
LEMMA VolumeIsFinite ==
    ASSUME NEW st
    PROVE  IsFiniteSet(Files(st)) /\ IsFiniteSet(Units(Files(st), st)) /\ Volume(st) \in Nat
<1>1. Period \in Nat
  BY VolumeAssumption
<1>2. IsFiniteSet(0 .. Period) /\ Files(st) \in SUBSET (0 .. Period)
  BY <1>1, FS_Interval DEF Files
<1>3. IsFiniteSet(Files(st))
  BY <1>2, FS_Subset
<1>4. \A a \in Files(st) : st[a] \in Nat
  BY DEF Files
<1> QED BY <1>3, <1>4, TotalIsFinite DEF Volume

\* Each file comes from one of the files before, no two from the same one.
LEMMA VolumeOfImage ==
    ASSUME NEW st, NEW from, NEW place \in [Files(st) -> Files(from)],
           \A a, b \in Files(st) : place[a] = place[b] => a = b,
           \A a \in Files(st) : st[a] = from[place[a]]
    PROVE  Volume(st) <= Volume(from)
<1>1. IsFiniteSet(Units(Files(from), from))
  BY VolumeIsFinite
<1> QED BY <1>1, TotalOfImage DEF Volume

\* Writing to the file of the present second adds at most what is written.
LEMMA FileVolume ==
    ASSUME NEW st, NEW v, NEW st2, st2[0] = v, \A a \in 1 .. Period : st2[a] = st[a]
    PROVE  /\ v \in Nat => Volume(st2) <= Volume(st) + v
           /\ v \notin Nat => Volume(st2) <= Volume(st)
<1> DEFINE others2 == Files(st) \ {0}
<1>1. 0 \in 0 .. Period /\ (0 .. Period) \ {0} = 1 .. Period
  BY VolumeAssumption
<1>2. \A a \in others2 : st2[a] = st[a]
  BY <1>1 DEF Files
<1>3. IsFiniteSet(Units(others2, st2)) /\ Total(others2, st2) <= Volume(st)
  <2> DEFINE place == [a \in others2 |-> a]
  <2>1. /\ place \in [others2 -> Files(st)]
        /\ \A a, b \in others2 : place[a] = place[b] => a = b
        /\ \A a \in others2 : st2[a] = st[place[a]]
    BY <1>2
  <2>2. IsFiniteSet(Units(Files(st), st))
    BY VolumeIsFinite
  <2> HIDE DEF others2, place
  <2>3. IsFiniteSet(Units(others2, st2)) /\ Total(others2, st2) <= Total(Files(st), st)
    BY <2>1, <2>2, TotalOfImage
  <2> QED BY <2>3 DEF Volume
<1>4. CASE v \in Nat
  <2>1. Files(st2) = others2 \cup {0}
    BY <1>1, <1>4 DEF Files
  <2>2. 0 \notin others2 /\ st2[0] \in Nat
    BY <1>2, <1>4
  <2> HIDE DEF others2
  <2>3. /\ Total(others2 \cup {0}, st2) = Total(others2, st2) + st2[0]
        /\ Total(others2, st2) \in Nat
    BY <1>3, <2>2, TotalOfOneMore
  <2>4. Volume(st2) = Total(others2, st2) + v
    BY <1>2, <2>1, <2>3 DEF Volume
  <2>5. Volume(st) \in Nat
    BY VolumeIsFinite
  <2> QED BY <1>3, <1>4, <2>3, <2>4, <2>5
<1>5. CASE v \notin Nat
  <2>1. Files(st2) = others2
    BY <1>1, <1>5 DEF Files
  <2> QED BY <1>3, <1>5, <2>1 DEF Volume
<1> QED BY <1>4, <1>5

\* Removing what is old leaves the volume of the period.
LEMMA SumUpVolume ==
    ASSUME NEW st \in Contents,
           NEW st2, st2 = [a \in Ages |-> IF Old(a) THEN Absent ELSE st[a]]
    PROVE  st2 \in Contents /\ Volume(st2) <= Volume(st)
<1>1. st2 \in Contents
  BY DEF Contents
<1>2. \A a \in 0 .. Period : a \in Ages /\ ~Old(a)
  BY VolumeAssumption DEF Ages, Old
<1>3. \A a \in 0 .. Period : st2[a] = st[a]
  BY <1>2
<1> DEFINE place == [a \in Files(st2) |-> a]
<1>4. /\ place \in [Files(st2) -> Files(st)]
      /\ \A a, b \in Files(st2) : place[a] = place[b] => a = b
      /\ \A a \in Files(st2) : st2[a] = st[place[a]]
  BY <1>3 DEF Files
<1> QED BY <1>1, <1>4, VolumeOfImage

\* Time takes files out of the period and puts none into it.
LEMMA TickVolume ==
    ASSUME NEW st \in Contents, NEW st2 \in Contents, st2[0] = Absent,
           \A a \in 1 .. Period : st2[a] = st[a - 1]
    PROVE  Volume(st2) <= Volume(st)
<1> DEFINE place == [a \in Files(st2) |-> a - 1]
<1>1. \A a \in Files(st2) : a \in 1 .. Period
  BY VolumeAssumption DEF Files
<1>2. /\ place \in [Files(st2) -> Files(st)]
      /\ \A a, b \in Files(st2) : place[a] = place[b] => a = b
      /\ \A a \in Files(st2) : st2[a] = st[place[a]]
  BY <1>1, VolumeAssumption DEF Files
<1> QED BY <1>2, VolumeOfImage
(***************************************************************************)
(* Typing                                                                  *)
(***************************************************************************)

\* A strategy that waits stays one: its last delay is a word, also when the
\* exponential delay, or the jitter on top of it, does not fit one.
LEMMA WaitType ==
    ASSUME NEW s \in Strategies, ~Exhausted(s), ~Panics(s), NEW t \in Waits(s)
    PROVE  t \in Strategies
<1>1. PICK jitter \in 0 .. Exponential(s) - 1 :
        t = After(s, Capped(s, Jittered(s, jitter)))
  BY DEF Waits
<1> DEFINE c == Capped(s, Jittered(s, jitter))
<1>2. c \in Word
  <2>1. Jittered(s, jitter) \in Word
    BY JitterIsBounded
  <2>2. s.max \in Word
    BY BackoffAssumption DEF Strategies, Word
  <2> QED BY <2>1, <2>2 DEF Capped
<1> HIDE DEF c
<1>3. s.attempt + 1 \in 0..MaxAttempts
  BY BackoffAssumption DEF Exhausted, Strategies
<1>4. t = [s EXCEPT !.attempt = @ + 1, !.last = c]
  BY <1>1 DEF After, c
<1> QED BY <1>2, <1>3, <1>4 DEF Strategies

TypeInv == TypeOK /\ Counted

\* The files of a client keep their contents typed as time passes.
LEMMA TickType ==
    ASSUME stats \in Contents, Tick
    PROVE  /\ stats' \in Contents /\ stats'[0] = Absent
           /\ \A a \in 1 .. Period : stats'[a] = stats[a - 1]
<1>1. Period \in Nat /\ Ages = 0 .. Period + 1
  BY VolumeAssumption DEF Ages
<1>2. /\ 0 \in Ages /\ 1 .. Period \subseteq Ages
      /\ \A a \in 1 .. Period : a - 1 \in Ages
  BY <1>1
<1>3. \A a \in Ages : a = 0 \/ a \in 1 .. Period \/ a = Period + 1
  BY <1>1
<1>4. 0 \notin 1 .. Period /\ Period + 1 \notin 1 .. Period /\ Period + 1 # 0
  BY <1>1
<1>5. stats'[0] = Absent
  BY <1>2, <1>4 DEF Tick
<1>6. \A a \in 1 .. Period : stats'[a] = stats[a - 1]
  BY <1>2, <1>4 DEF Tick
<1>7. stats'[Period + 1] \in {Torn, Absent}
  BY <1>1, <1>4 DEF Tick
<1>8. \A a \in Ages : stats'[a] \in Nat \cup {Absent, Torn, Mixed}
  BY <1>2, <1>3, <1>5, <1>6, <1>7 DEF Contents
<1> QED BY <1>5, <1>6, <1>8 DEF Tick, Contents

\* The state of a client and of the files stays well typed.
LEMMA NextTyped == TypeInv /\ [Next]_vars => TypeOK'
<1> SUFFICES ASSUME TypeInv, [Next]_vars PROVE TypeOK'
  OBVIOUS
<1> USE DEF TypeInv, TypeOK, VolumeTypeOK, Contents, PCs, Goto, Observer, File, Open,
            WriteIn, CutIn, second
<1>1. /\ Counted'
      /\ queue' \in Seq(Nat) /\ left' \in Nat /\ counter' \in Nat
      /\ held' \in Nat /\ unwritten' \in Nat
  <2>1. Counted'
    BY NextCounted
  <2> QED BY <2>1 DEF Counted
<1>2. /\ MaxFaults \in Nat /\ 0 \in Ages
      /\ \A a \in Artifacts : SumOf(a) \in Nat
  BY VolumeAssumption, SumOfAdds DEF Ages
<1>3. CASE Begin \/ Accepted \/ Available \/ Refused \/ GiveUp \/ Return
  BY <1>3 DEF Begin, Accepted, Available, Refused, GiveUp, Return, volumeVars, download
<1>4. CASE Wait
  <2>1. strategy' \in Strategies
    BY <1>4, WaitType DEF Wait
  <2> QED BY <1>4, <2>1 DEF Wait, volumeVars, download
<1>5. CASE Validate /\ UNCHANGED strategy
  BY <1>1, <1>5 DEF Validate, SumUp
<1>6. CASE (Inspect \/ Read \/ ReadError \/ Close \/ Closed \/ Wake \/ Stop)
           /\ UNCHANGED strategy
  BY <1>1, <1>6 DEF Inspect, Read, ReadError, Close, Closed, Wake, Stop
<1>7. CASE (Take \/ WriteStats \/ Cut) /\ UNCHANGED strategy
  BY <1>1, <1>2, <1>7 DEF Take, WriteStats, Cut
<1>8. CASE WriteFails /\ UNCHANGED strategy
  BY <1>1, <1>2, <1>8 DEF WriteFails
<1>9. CASE Tick /\ UNCHANGED strategy
  <2>1. stats' \in Contents
    BY <1>9, TickType
  <2> QED BY <1>1, <1>9, <2>1 DEF Tick
<1>10. CASE Other /\ UNCHANGED strategy
  <2>1. CASE OtherValidates
    BY <1>1, <1>2, <1>10, <2>1 DEF OtherValidates, SumUp, download
  <2>2. CASE OtherOpens \/ OtherCuts \/ OtherStops
    BY <1>1, <1>2, <1>10, <2>2 DEF OtherOpens, OtherCuts, OtherStops, download
  <2>3. CASE OtherWrites
    <3>1. PICK n \in 0 .. others : WriteIn(n, Here) /\ others' = others - n
      BY <2>3 DEF OtherWrites
    <3>2. others' \in Nat /\ n \in Nat
      BY <3>1
    <3> QED BY <1>1, <1>2, <1>10, <2>3, <3>1, <3>2 DEF OtherWrites, download
  <2> QED BY <1>10, <2>1, <2>2, <2>3 DEF Other
<1>11. CASE Crash
  <2>1. NewStrategies \subseteq Strategies
    BY NewIsSound DEF Sound
  <2> QED BY <1>1, <1>2, <1>11, <2>1 DEF Crash, VolumeCrash
<1>12. CASE UNCHANGED vars
  BY <1>12 DEF vars, volumeVars, download
<1> QED BY <1>3, <1>4, <1>5, <1>6, <1>7, <1>8, <1>9, <1>10, <1>11, <1>12
        DEF Next, Works, Observes

\* A new client with no files is well typed.
LEMMA InitTyped == Init => TypeInv
<1> SUFFICES ASSUME Init PROVE TypeOK
  BY InitCounted DEF TypeInv
<1>1. NewStrategies \subseteq Strategies
  BY NewIsSound DEF Sound
<1> QED BY <1>1, VolumeAssumption DEF Init, VolumeInit, TypeOK, VolumeTypeOK, PCs

\* Typing of a client and of the files it shares with another, whatever the
\* delays, the size of a word and the artifacts.
THEOREM WellTyped == Spec => []TypeOK
<1>1. TypeInv /\ [Next]_vars => TypeInv'
  BY NextTyped, NextCounted DEF TypeInv
<1>2. TypeInv => TypeOK
  BY DEF TypeInv
<1> QED BY <1>1, <1>2, InitTyped, PTL DEF Spec

(***************************************************************************)
(* The limit on volume                                                     *)
(***************************************************************************)

Most == Max({SumOf(a) : a \in Artifacts})

\* Most is the size of the largest artifact, which the limit admits.
LEMMA MostBounds ==
    /\ Most \in Nat /\ {Limit, ManifestSize} \subseteq Nat
    /\ \A a \in Artifacts : a \in Seq(Nat) /\ SumOf(a) \in Nat /\ SumOf(a) <= Most
<1> DEFINE sizes == {SumOf(a) : a \in Artifacts}
<1>1. \A a \in Artifacts : a \in Seq(Nat) /\ SumOf(a) \in 0 .. Limit
  <2> SUFFICES ASSUME NEW a \in Artifacts PROVE a \in Seq(Nat) /\ SumOf(a) \in 0 .. Limit
    OBVIOUS
  <2>1. a \in Seq(Nat) /\ SumOf(a) \in Nat
    BY VolumeAssumption, SumOfAdds
  <2> QED BY <2>1, VolumeAssumption DEF Size
<1>2. sizes \subseteq 0 .. Limit /\ sizes # {} /\ Limit \in Nat
  BY <1>1, VolumeAssumption
<1>3. Most \in sizes /\ \A n \in sizes : n <= Most
  <2> HIDE DEF sizes
  <2>1. Max(sizes) \in sizes /\ \A n \in sizes : n <= Max(sizes)
    <3>1. IsFiniteSet(0 .. Limit)
      BY <1>2, FS_Interval
    <3>2. sizes \in SUBSET (0 .. Limit) /\ sizes \subseteq Nat
      BY <1>2
    <3>3. IsFiniteSet(sizes)
      BY <3>1, <3>2, FS_Subset
    <3> QED BY <1>2, <3>2, <3>3, MaxExists
  <2> QED BY <2>1 DEF Most, sizes
<1> QED BY <1>1, <1>2, <1>3, VolumeAssumption

\* Blobs still to be loaded after the one that is being read.
Rest == IF Reading THEN Tail(queue) ELSE queue

\* What the observer still takes into account.
Watched == IF observer \in {"none", "ended"} THEN 0 ELSE counter

\* What is outstanding, in its parts.
LEMMA OutstandingParts ==
    ASSUME Counted
    PROVE  /\ Outstanding = held + Watched + left + SumOf(Rest)
           /\ {held, Watched, left, SumOf(Rest), Outstanding} \subseteq Nat
<1>1. Outstanding = held + Watched + left + SumOf(Rest)
  BY DEF Outstanding, Watched, Rest
<1>2. Rest \in Seq(Nat)
  BY DEF Counted, Rest
<1> QED BY <1>1, <1>2, SumOfAdds DEF Counted, Watched

\* The same after a step.
LEMMA OutstandingPartsNext ==
    ASSUME Counted'
    PROVE  /\ Outstanding' = held' + Watched' + left' + SumOf(Rest')
           /\ {held', Watched', left', SumOf(Rest'), Outstanding'} \subseteq Nat
<1>1. Outstanding' = held' + Watched' + left' + SumOf(Rest')
  BY DEF Outstanding, Watched, Rest
<1>2. Rest' \in Seq(Nat)
  BY DEF Counted, Rest
<1> QED BY <1>1, <1>2, SumOfAdds DEF Counted, Watched

\* Either client has been admitted when the other had at most one artifact to
\* go; and chunks are left of a blob only while it is read.
Admitted ==
    /\ ~Reading => left = 0
    /\ Outstanding <= Most
    /\ others <= Most
    /\ WithinLimit

\* A step that only takes chunks on towards the files, or drops some.
LEMMA MovesOn ==
    ASSUME TypeInv, TypeInv', Admitted,
           ~Reading' => left' = 0,
           Outstanding' <= Outstanding, others' <= others,
           Volume(stats') + Outstanding' + others' <= Volume(stats) + Outstanding + others
    PROVE  Admitted'
<1>1. /\ Outstanding \in Nat /\ Outstanding' \in Nat
      /\ others \in Nat /\ others' \in Nat
  <2>1. Counted /\ Counted' /\ others \in Nat /\ others' \in Nat
    BY DEF TypeInv, TypeOK, VolumeTypeOK
  <2> QED BY <2>1, OutstandingParts, OutstandingPartsNext
<1>2. /\ Consumed = Volume(stats) /\ Consumed' = Volume(stats')
      /\ Volume(stats) \in Nat /\ Volume(stats') \in Nat
  BY ConsumedIsVolume, VolumeIsFinite DEF TypeInv, TypeOK, VolumeTypeOK, Contents
<1>3. Most \in Nat /\ Limit \in Nat
  BY MostBounds
<1>4. Consumed + Outstanding + others <= Limit + Most
  BY DEF Admitted, WithinLimit, Most
<1>5. Consumed' + Outstanding' + others' <= Limit + Most
  BY <1>1, <1>2, <1>3, <1>4
<1>6. Outstanding' <= Most /\ others' <= Most
  BY <1>1, <1>3 DEF Admitted
<1> QED BY <1>5, <1>6 DEF Admitted, WithinLimit, Most

\* No sizes add up to nothing.
LEMMA SumOfNothing == SumOf(<<>>) = 0
<1>1. <<>> \in Seq(Nat) /\ DOMAIN <<>> = {}
  OBVIOUS
<1> QED BY <1>1, SumOfAdds, TotalOfNothing

\* Opening and cutting a file add nothing to the volume, writing at most what is
\* written; a file that two clients write to at once counts for nothing.
LEMMA FileSteps ==
    ASSUME stats \in Contents, NEW v \in Nat, NEW both \in BOOLEAN
    PROVE  /\ Open => Volume(stats') <= Volume(stats)
           /\ WriteIn(v, both) => Volume(stats') <= Volume(stats) + v
           /\ CutIn(both) => Volume(stats') <= Volume(stats)
<1>1. /\ 0 \in Ages /\ 1 .. Period \subseteq Ages /\ 0 \notin 1 .. Period
      /\ Torn \notin Nat /\ Mixed \notin Nat
  BY VolumeAssumption DEF Ages
<1>2. Volume(stats) \in Nat
  BY VolumeIsFinite
<1>3. ASSUME NEW w, File(w)
      PROVE  /\ w \in Nat => Volume(stats') <= Volume(stats) + w
             /\ w \notin Nat => Volume(stats') <= Volume(stats)
  <2>1. stats'[0] = w /\ \A a \in 1 .. Period : stats'[a] = stats[a]
    BY <1>1, <1>3 DEF File, Contents
  <2> QED BY <2>1, FileVolume
<1>4. Open => Volume(stats') <= Volume(stats)
  BY <1>1, <1>3 DEF Open
<1>5. WriteIn(v, both) => Volume(stats') <= Volume(stats) + v
  <2> SUFFICES ASSUME WriteIn(v, both) PROVE Volume(stats') <= Volume(stats) + v
    OBVIOUS
  <2>1. File(Mixed) \/ File(v)
    BY DEF WriteIn
  <2>2. CASE File(Mixed)
    <3>1. Volume(stats') <= Volume(stats) /\ Volume(stats') \in Nat
      BY <1>1, <1>3, <2>2, VolumeIsFinite
    <3> QED BY <1>2, <3>1
  <2>3. CASE File(v)
    BY <1>3, <2>3
  <2> QED BY <2>1, <2>2, <2>3
<1>6. CutIn(both) => Volume(stats') <= Volume(stats)
  BY <1>1, <1>2, <1>3 DEF CutIn
<1> QED BY <1>4, <1>5, <1>6

\* A client is admitted when the files and its artifact stay within the limit;
\* the other client has at most one artifact to go.
LEMMA ValidateAdmits ==
    ASSUME TypeInv, TypeInv', Admitted, Validate
    PROVE  Admitted'
<1> USE DEF Goto
<1>1. /\ pc = "validate" /\ held = 0 /\ observer = "none" /\ left = 0
      /\ UNCHANGED <<left, observer, held, counter, others>>
      /\ Counted /\ Counted' /\ stats \in Contents
  BY DEF Validate, TypeInv, TypeOK, VolumeTypeOK, Contents, Counted, Blob, Reading, Admitted,
         second
<1>2. /\ stats' \in Contents /\ Volume(stats') <= Volume(stats)
      /\ Volume(stats) \in Nat /\ Volume(stats') \in Nat
  BY <1>1, SumUpVolume, VolumeIsFinite DEF Validate, SumUp
<1>3. PICK artifact \in Artifacts :
        \/ Fits(artifact) /\ pc' = "load" /\ queue' = artifact
        \/ pc' = "returned" /\ UNCHANGED queue
  BY DEF Validate
<1> USE DEF Reading
<1>4. CASE Fits(artifact) /\ pc' = "load" /\ queue' = artifact
  <2>1. Outstanding' = SumOf(artifact)
    <3>1. Watched' = 0 /\ Rest' = artifact /\ held' = 0 /\ left' = 0
      BY <1>1, <1>3, <1>4 DEF Watched, Rest
    <3> QED BY <1>1, <3>1, OutstandingPartsNext, MostBounds
  <2>2. SumOf(artifact) \in Nat /\ SumOf(artifact) <= Most
    BY MostBounds
  <2>3. Size(artifact) + Volume(stats) <= Limit /\ Size(artifact) = ManifestSize + SumOf(artifact)
    BY <1>1, <1>4, ConsumedIsVolume DEF Fits, Size
  <2>4. Consumed' = Volume(stats')
    BY <1>2, ConsumedIsVolume
  <2>5. others \in Nat /\ others' = others /\ others <= Most
    BY <1>1 DEF TypeInv, TypeOK, VolumeTypeOK, Admitted
  <2>6. Consumed' + Outstanding' + others' <= Limit + Most
    BY <1>2, <2>1, <2>2, <2>3, <2>4, <2>5, MostBounds
  <2> QED BY <1>1, <2>1, <2>2, <2>5, <2>6 DEF Admitted, WithinLimit, Most
<1>5. CASE pc' = "returned" /\ UNCHANGED queue
  <2>1. Outstanding' = Outstanding
    BY <1>1, <1>3, <1>5 DEF Outstanding
  <2>2. Outstanding \in Nat /\ others \in Nat
    BY <1>1, OutstandingParts DEF TypeInv, TypeOK, VolumeTypeOK
  <2>3. Volume(stats') + Outstanding' + others' <= Volume(stats) + Outstanding + others
    BY <1>1, <1>2, <2>1, <2>2
  <2> QED BY <1>1, <2>1, <2>2, <2>3, MovesOn
<1> QED BY <1>3, <1>4, <1>5

\* So is the other client.
LEMMA OtherValidatesAdmits ==
    ASSUME TypeInv, TypeInv', Admitted, OtherValidates
    PROVE  Admitted'
<1>1. PICK artifact \in Artifacts : Fits(artifact) /\ others' = SumOf(artifact)
  BY DEF OtherValidates
<1>2. stats \in Contents /\ UNCHANGED <<pc, download>>
  BY DEF OtherValidates, TypeInv, TypeOK, VolumeTypeOK, Contents
<1>3. /\ stats' \in Contents /\ Volume(stats') <= Volume(stats)
      /\ Volume(stats) \in Nat /\ Volume(stats') \in Nat
  BY <1>2, SumUpVolume, VolumeIsFinite DEF OtherValidates, SumUp
<1>4. Outstanding' = Outstanding /\ Outstanding \in Nat /\ Outstanding <= Most
  BY <1>2, OutstandingParts DEF Outstanding, Reading, download, TypeInv, Admitted
<1>5. Size(artifact) + Volume(stats) <= Limit /\ Size(artifact) = ManifestSize + SumOf(artifact)
  BY <1>1, <1>2, ConsumedIsVolume DEF Fits, Size
<1>6. Consumed' = Volume(stats')
  BY <1>3, ConsumedIsVolume
<1>7. SumOf(artifact) \in Nat /\ SumOf(artifact) <= Most
  BY MostBounds
<1>8. Consumed' + Outstanding' + others' <= Limit + Most
  BY <1>1, <1>3, <1>4, <1>5, <1>6, <1>7, MostBounds
<1>9. ~Reading' => left' = 0
  BY <1>2 DEF Admitted, Reading, download
<1> QED BY <1>1, <1>4, <1>7, <1>8, <1>9 DEF Admitted, WithinLimit, Most

\* Loading: what is left, is read, counted, held and written moves on to the
\* files, and no step makes more of it.
LEMMA LoadingMovesOn ==
    ASSUME TypeInv, TypeInv', Admitted,
           \/ Inspect \/ Read \/ ReadError \/ Close \/ Closed
           \/ Take \/ WriteStats \/ Cut \/ WriteFails \/ Wake \/ Stop
    PROVE  Admitted'
<1> DEFINE Out  == held + Watched + left + SumOf(Rest)
           Out2 == held' + Watched' + left' + SumOf(Rest')
<1>1. /\ Counted /\ Counted' /\ stats \in Contents
      /\ others \in Nat /\ others' = others /\ (~Reading => left = 0)
  BY DEF TypeInv, TypeOK, VolumeTypeOK, Contents, Admitted, Inspect, Read, ReadError,
         Close, Closed, Take, WriteStats, Cut, WriteFails, Wake, Stop, second
<1>2. /\ Outstanding = Out /\ {held, Watched, left, SumOf(Rest), Outstanding} \subseteq Nat
      /\ Outstanding' = Out2
      /\ {held', Watched', left', SumOf(Rest'), Outstanding'} \subseteq Nat
  BY <1>1, OutstandingParts, OutstandingPartsNext
<1>3. Volume(stats) \in Nat /\ Volume(stats') \in Nat
  BY VolumeIsFinite
<1>4. ASSUME ~Reading' => left' = 0,
             Out2 <= Out, Volume(stats') + Out2 <= Volume(stats) + Out
      PROVE  Admitted'
  <2> HIDE DEF Out, Out2
  <2>1. /\ Volume(stats') + Outstanding' + others' <= Volume(stats) + Outstanding + others
        /\ Outstanding' <= Outstanding /\ others' <= others
    BY <1>1, <1>2, <1>3, <1>4
  <2> QED BY <1>4, <2>1, MovesOn
<1>5. ASSUME ~Reading' => left' = 0, Out2 <= Out, Volume(stats') <= Volume(stats)
      PROVE  Admitted'
  <2> HIDE DEF Out, Out2
  <2>1. Volume(stats') + Out2 <= Volume(stats) + Out
    BY <1>2, <1>3, <1>5
  <2> QED BY <1>4, <1>5, <2>1
<1> HIDE DEF Out, Out2
<1> USE DEF Reading
<1>6. CASE Inspect
  <2>1. /\ pc = "load" /\ pc' = "read" /\ observer = "none" /\ left = 0 /\ queue # <<>>
        /\ UNCHANGED <<stats, held, queue>> /\ left' \in 0 .. Head(queue)
        /\ counter' = 0
    BY <1>1, <1>6 DEF Inspect, Goto, Counted, Blob
  <2>2. Watched = 0 /\ Watched' = 0 /\ Rest = queue /\ Rest' = Tail(queue)
    BY <2>1 DEF Watched, Rest
  <2>3. /\ SumOf(queue) = Head(queue) + SumOf(Tail(queue))
        /\ Head(queue) \in Nat /\ SumOf(Tail(queue)) \in Nat
    BY <1>1, <2>1, SumOfTail DEF Counted
  <2>4. left' + SumOf(Rest') <= SumOf(Rest) /\ left = 0
    BY <2>1, <2>2, <2>3
  <2>5. Out2 <= Out
    BY <1>2, <2>1, <2>2, <2>4 DEF Out, Out2
  <2>6. Volume(stats') <= Volume(stats)
    BY <1>3, <2>1
  <2> QED BY <1>5, <2>1, <2>5, <2>6
<1>7. CASE Read \/ ReadError
  <2>1. /\ pc = "read" /\ pc' \in {"read", "over"} /\ left > 0
        /\ \/ left' = left - 1 /\ counter' = counter + 1
           \/ left' = 0 /\ counter' = counter
        /\ UNCHANGED <<stats, held, queue, observer>>
    BY <1>7 DEF Read, ReadError, Goto
  <2>2. left' + Watched' <= left + Watched
    <3>1. left \in Nat /\ counter \in Nat
      BY <1>1 DEF Counted
    <3> QED BY <2>1, <3>1 DEF Watched
  <2>5. Rest' = Rest
    BY <2>1 DEF Rest
  <2>3. Out2 <= Out
    BY <1>2, <2>1, <2>2, <2>5 DEF Out, Out2
  <2>4. Volume(stats') <= Volume(stats)
    BY <1>3, <2>1
  <2> QED BY <1>5, <2>1, <2>3, <2>4
<1>8. CASE Close
  <2>1. /\ Reading /\ pc' = "closing" /\ left' = 0
        /\ queue' = Tail(queue) \/ queue' = <<>>
        /\ UNCHANGED <<stats, held, counter, observer>>
    BY <1>8 DEF Close, Goto
  <2>2. Watched' = Watched /\ Rest = Tail(queue) /\ Rest' = queue'
    BY <2>1 DEF Watched, Rest
  <2>3. SumOf(Rest') = SumOf(Rest) \/ SumOf(Rest') = 0
    BY <2>1, <2>2, SumOfNothing
  <2>4. Out2 <= Out
    BY <1>2, <2>1, <2>2, <2>3 DEF Out, Out2
  <2>5. Volume(stats') <= Volume(stats)
    BY <1>3, <2>1
  <2> QED BY <1>5, <2>1, <2>4, <2>5
<1>9. CASE Closed
  <2>1. /\ pc = "closing" /\ pc' \in {"load", "returned"} /\ observer = "ended" /\ observer' = "none"
        /\ UNCHANGED <<stats, held, queue, left>>
    BY <1>9 DEF Closed, Goto
  <2>2. Watched' = 0 /\ Watched = 0 /\ Rest' = Rest
    BY <2>1 DEF Watched, Rest
  <2>3. Out2 <= Out
    BY <1>2, <2>1, <2>2 DEF Out, Out2
  <2>4. Volume(stats') <= Volume(stats)
    BY <1>3, <2>1
  <2> QED BY <1>1, <1>5, <2>1, <2>3, <2>4
<1>10. CASE Take
  <2>1. /\ observer = "take" /\ observer' = "write" /\ held = 0 /\ held' = counter
        /\ counter' = 0 /\ UNCHANGED <<pc, queue, left>>
    BY <1>1, <1>10 DEF Take, Observer, Counted
  <2>2. Watched = counter /\ Watched' = 0 /\ Rest' = Rest
    BY <2>1 DEF Watched, Rest
  <2>3. Out2 <= Out
    BY <1>2, <2>1, <2>2 DEF Out, Out2
  <2>4. Volume(stats') <= Volume(stats)
    BY <1>1, <1>10, FileSteps DEF Take
  <2> QED BY <1>1, <1>5, <2>1, <2>3, <2>4
<1>11. CASE WriteStats
  <2>1. /\ observer = "write" /\ observer' = "cut" /\ held' = 0
        /\ UNCHANGED <<pc, queue, left, counter>>
    BY <1>11 DEF WriteStats, Observer
  <2>2. Watched' = Watched /\ Rest' = Rest
    BY <2>1 DEF Watched, Rest
  <2>3. Out2 + held = Out
    BY <1>2, <2>1, <2>2 DEF Out, Out2
  <2>4. held \in Nat /\ WriteIn(held, There) /\ There \in BOOLEAN
    BY <1>2, <1>11 DEF WriteStats, There
  <2>5. Volume(stats') <= Volume(stats) + held
    BY <1>1, <2>4, FileSteps
  <2>6. Out2 <= Out /\ Volume(stats') + Out2 <= Volume(stats) + Out
    BY <1>2, <1>3, <2>3, <2>4, <2>5
  <2> QED BY <1>1, <1>4, <2>1, <2>6
<1>12. CASE WriteFails
  <2>1. /\ observer' = "ended" /\ held' = 0 /\ UNCHANGED <<stats, pc, queue, left>>
    BY <1>12 DEF WriteFails, Observer
  <2>2. Watched' = 0 /\ Rest' = Rest
    BY <2>1 DEF Watched, Rest
  <2>3. Out2 <= Out
    BY <1>2, <2>1, <2>2 DEF Out, Out2
  <2>4. Volume(stats') <= Volume(stats)
    BY <1>3, <2>1
  <2> QED BY <1>1, <1>5, <2>1, <2>3, <2>4
<1>13. CASE Wake \/ Stop
  <2>1. /\ observer' \in {"take", "ended"} /\ observer \in {"sleep", "due"}
        /\ UNCHANGED <<stats, pc, queue, left, held, counter>>
    BY <1>13 DEF Wake, Stop, Observer
  <2>2. (Watched' = 0 \/ Watched' = Watched) /\ Rest' = Rest
    BY <2>1 DEF Watched, Rest
  <2>3. Out2 <= Out
    BY <1>2, <2>1, <2>2 DEF Out, Out2
  <2>4. Volume(stats') <= Volume(stats)
    BY <1>3, <2>1
  <2> QED BY <1>1, <1>5, <2>1, <2>3, <2>4
<1>14. CASE Cut
  <2>1. /\ observer = "cut" /\ observer' = "sleep"
        /\ CutIn(There) /\ There \in BOOLEAN
        /\ UNCHANGED <<pc, queue, left, counter, held>>
    BY <1>14 DEF Cut, Observer, There
  <2>2. Watched' = Watched /\ Rest' = Rest
    BY <2>1 DEF Watched, Rest
  <2>3. Out2 <= Out
    BY <1>2, <2>1, <2>2 DEF Out, Out2
  <2>4. Volume(stats') <= Volume(stats)
    BY <1>1, <2>1, FileSteps
  <2> QED BY <1>1, <1>5, <2>1, <2>3, <2>4
<1> QED BY <1>6, <1>7, <1>8, <1>9, <1>10, <1>11, <1>12, <1>13, <1>14

\* Around it: time takes files out of the period, the other client moves its
\* chunks on to the files or drops them, and a process that dies drops its own.
LEMMA SurroundingsMoveOn ==
    ASSUME TypeInv, TypeInv', Admitted,
           Tick \/ OtherOpens \/ OtherWrites \/ OtherCuts \/ OtherStops \/ Crash
    PROVE  Admitted'
<1> USE DEF Reading
<1>1. /\ Counted /\ Counted' /\ stats \in Contents /\ stats' \in Contents
      /\ others \in Nat /\ others' \in Nat
  BY DEF TypeInv, TypeOK, VolumeTypeOK, Contents
<1>2. Outstanding \in Nat /\ Outstanding' \in Nat
  BY <1>1, OutstandingParts, OutstandingPartsNext
<1>3. Volume(stats) \in Nat /\ Volume(stats') \in Nat
  BY VolumeIsFinite
<1>4. CASE Tick
  <2>1. Volume(stats') <= Volume(stats)
    BY <1>1, <1>4, TickType, TickVolume
  <2>2. /\ UNCHANGED <<pc, queue, left, counter, held, others>>
        /\ observer' \in {"none", "ended"} <=> observer \in {"none", "ended"}
    BY <1>4 DEF Tick, Observer, second
  <2>3. Outstanding' = Outstanding /\ (~Reading' => left' = 0)
    BY <2>2 DEF Outstanding, Admitted
  <2> QED BY <1>1, <1>2, <1>3, <2>1, <2>2, <2>3, MovesOn
<1>5. CASE OtherWrites
  <2>1. PICK n \in 0 .. others : WriteIn(n, Here) /\ others' = others - n
    BY <1>5 DEF OtherWrites
  <2>2. n \in Nat /\ Here \in BOOLEAN
    BY <2>1 DEF Here
  <2>3. Volume(stats') <= Volume(stats) + n
    BY <1>1, <2>1, <2>2, FileSteps
  <2>4. Outstanding' = Outstanding /\ (~Reading' => left' = 0)
    BY <1>5 DEF OtherWrites, download, Outstanding, Admitted
  <2> QED BY <1>1, <1>2, <1>3, <2>1, <2>3, <2>4, MovesOn
<1>6. CASE OtherStops
  <2>1. others' = 0 /\ UNCHANGED <<stats, pc, download>>
    BY <1>6 DEF OtherStops
  <2>2. Outstanding' = Outstanding /\ (~Reading' => left' = 0)
    BY <2>1 DEF download, Outstanding, Admitted
  <2> QED BY <1>1, <1>2, <1>3, <2>1, <2>2, MovesOn
<1>7. CASE Crash
  <2>1. /\ UNCHANGED <<stats, others>> /\ pc' = "idle" /\ observer' = "none"
        /\ held' = 0 /\ left' = 0 /\ queue' = <<>>
    BY <1>7 DEF Crash, VolumeCrash, Goto, Observer, second
  <2>2. Watched' = 0 /\ SumOf(Rest') = 0
    BY <2>1, SumOfNothing DEF Watched, Rest
  <2>3. Outstanding' = 0
    BY <1>1, <2>1, <2>2, OutstandingPartsNext
  <2> QED BY <1>1, <1>2, <1>3, <2>1, <2>3, MovesOn
<1>8. CASE OtherOpens \/ OtherCuts
  <2>1. (Open \/ CutIn(Here)) /\ Here \in BOOLEAN /\ UNCHANGED <<pc, download, others>>
    BY <1>8 DEF OtherOpens, OtherCuts, Here
  <2>2. Volume(stats') <= Volume(stats)
    BY <1>1, <2>1, FileSteps
  <2>3. Outstanding' = Outstanding /\ (~Reading' => left' = 0)
    BY <2>1 DEF download, Outstanding, Admitted
  <2> QED BY <1>1, <1>2, <1>3, <2>1, <2>2, <2>3, MovesOn
<1> QED BY <1>4, <1>5, <1>6, <1>7, <1>8

\* Before the first download nothing is in the files.
LEMMA InitAdmitted == Init => Admitted
<1> SUFFICES ASSUME Init PROVE Admitted
  OBVIOUS
<1>1. stats \in Contents /\ Files(stats) = {}
  BY VolumeAssumption DEF Init, VolumeInit, Contents, Files, Ages
<1>2. Consumed = 0
  BY <1>1, ConsumedIsVolume, TotalOfNothing DEF Volume
<1>3. Outstanding = 0
  BY SumOfNothing DEF Init, VolumeInit, Outstanding
<1> QED BY <1>2, <1>3, MostBounds DEF Init, VolumeInit, Admitted, WithinLimit, Most

\* The limit holds for any artifacts that fit it one by one, any length of the
\* period, and however reads, writes, failures, restarts and the second client
\* come together, the two writing to one file at once included: of what one client
\* alone has recorded and what is admitted there is never more than the limit and
\* one artifact.
THEOREM LimitTheorem == Spec => []WithinLimit
<1>1. Init => TypeInv /\ Admitted
  BY InitTyped, InitAdmitted
<1>2. TypeInv /\ Admitted /\ [Next]_vars => TypeInv' /\ Admitted'
  <2> SUFFICES ASSUME TypeInv, Admitted, [Next]_vars PROVE TypeInv' /\ Admitted'
    OBVIOUS
  <2>1. TypeInv'
    BY NextTyped, NextCounted DEF TypeInv
  <2>2. CASE UNCHANGED volumeVars /\ (pc' = pc \/ ~(Reading \/ Reading'))
    <3>1. /\ Outstanding' = Outstanding /\ UNCHANGED <<stats, others>>
          /\ ~Reading' => left' = 0
      BY <2>2 DEF volumeVars, second, download, Outstanding, Reading, Admitted
    <3>2. Outstanding \in Nat /\ others \in Nat
      BY OutstandingParts DEF TypeInv, TypeOK, VolumeTypeOK
    <3>3. Volume(stats) \in Nat
      BY VolumeIsFinite
    <3>4. /\ Outstanding' <= Outstanding /\ others' <= others
          /\ Volume(stats') + Outstanding' + others' <= Volume(stats) + Outstanding + others
      BY <3>1, <3>2, <3>3
    <3> QED BY <2>1, <3>1, <3>4, MovesOn
  <2>3. CASE Begin \/ Accepted \/ Available \/ Refused \/ GiveUp \/ Wait \/ Return
    BY <2>2, <2>3 DEF Begin, Accepted, Available, Refused, GiveUp, Wait, Return, Goto,
                      Reading
  <2>4. CASE UNCHANGED vars
    BY <2>2, <2>4 DEF vars
  <2>5. CASE Validate \/ Inspect \/ Read \/ ReadError \/ Close \/ Closed \/ Observes
    BY <2>1, <2>5, ValidateAdmits, LoadingMovesOn DEF Observes
  <2>6. CASE Tick \/ Other \/ Crash
    BY <2>1, <2>6, SurroundingsMoveOn, OtherValidatesAdmits DEF Other
  <2> QED BY <2>1, <2>3, <2>4, <2>5, <2>6 DEF Next, Works
<1>3. Admitted => WithinLimit
  BY DEF Admitted
<1> QED BY <1>1, <1>2, <1>3, PTL DEF Spec
=============================================================================
