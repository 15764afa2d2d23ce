-------------------------------- MODULE Pull --------------------------------
(***************************************************************************)
(* A pull with its waiting and its limit on volume: the loop of Pull in    *)
(* updater/client.go asks the service for a delta (edgeapi/client.go),     *)
(* waits as Backoff says while there is none, and loads the delta or the   *)
(* image as DownloadVolume says.  A client is used for many pulls; its     *)
(* process may die and be replaced.  What the service answers is open.     *)
(***************************************************************************)
EXTENDS Backoff, DownloadVolume

VARIABLES
    strategy    \* the backoff of the client

vars == <<volumeVars, pc, strategy>>

PCs == {"idle", "ask", "wait", "validate", "load", "read", "over", "closing",
        "returned", "panic"}

TypeOK ==
    /\ VolumeTypeOK
    /\ pc \in PCs
    /\ strategy \in Strategies

Init ==
    /\ VolumeInit
    /\ pc = "idle"
    /\ strategy \in NewStrategies

-----------------------------------------------------------------------------
Begin ==
    /\ pc = "idle"
    /\ Goto("ask")
    /\ UNCHANGED <<volumeVars, strategy>>

\* 202.
Accepted ==
    /\ pc = "ask"
    /\ Goto("wait")
    /\ UNCHANGED <<volumeVars, strategy>>

\* 200, or an answer on which the whole image is pulled.
Available ==
    /\ pc = "ask"
    /\ Goto("validate")
    /\ UNCHANGED <<volumeVars, strategy>>

\* 204, or an error.
Refused ==
    /\ pc = "ask"
    /\ Goto("returned")
    /\ UNCHANGED <<volumeVars, strategy>>

GiveUp ==
    /\ pc = "wait" /\ Exhausted(strategy)
    /\ Goto("returned")
    /\ UNCHANGED <<volumeVars, strategy>>

Wait ==
    /\ pc = "wait" /\ ~Exhausted(strategy)
    /\ IF Panics(strategy)
       THEN Goto("panic") /\ UNCHANGED strategy
       ELSE /\ \E s \in Waits(strategy) : strategy' = s
            /\ Goto("ask")
    /\ UNCHANGED volumeVars

Return ==
    /\ pc = "returned"
    /\ Goto("idle")
    /\ UNCHANGED <<volumeVars, strategy>>

\* A process dies and another takes its place, with a client of its own.
Crash ==
    /\ VolumeCrash
    /\ strategy' \in NewStrategies
    /\ Goto("idle")

\* What the goroutine that pulls does by itself.
Works ==
    \/ Begin \/ Accepted \/ Available \/ Refused \/ GiveUp \/ Wait \/ Return
    \/ (Validate \/ Inspect \/ Close \/ Closed) /\ UNCHANGED strategy

Next ==
    \/ Works \/ Crash
    \/ (Read \/ ReadError \/ Observes \/ Tick \/ Other) /\ UNCHANGED strategy

Spec == Init /\ [][Next]_vars

\* The goroutines run: a pull does not stop half way and clients pull again, the
\* network ending every download at some time, the second client's as well; what
\* the observer has begun to write it ends; its select does not choose the timer
\* for ever; and time goes on.  The service may never have the delta.
Fairness ==
    /\ WF_vars(Works)
    /\ WF_vars((Take \/ WriteStats \/ Cut) /\ UNCHANGED strategy)
    /\ WF_vars(OtherStops /\ UNCHANGED strategy)
    /\ SF_vars(Stop /\ UNCHANGED strategy)
    /\ SF_vars(Tick /\ UNCHANGED strategy)

FairSpec == Spec /\ Fairness

-----------------------------------------------------------------------------
\* The delay of an attempt: doubled each time, or the last one when the base is
\* not below the maximum to begin with.
Delay(s) ==
    IF s.base < s.max \/ s.attempt = 0 THEN s.base * 2^s.attempt ELSE s.last

\* Delay and jitter fit a word: with the default strategy up to attempt 35.
NoOverflow(delay) == 0 < delay /\ 3 * delay <= 2 * HalfWord

\* After an answer that there is no delta yet, a client sleeps before it asks
\* again: never longer than the maximum, whatever overflows; and as long as delay
\* and jitter fit a word, never not at all and, unless the maximum cuts it, for
\* at least half of the delay.  Of the attempts after that nothing is said but
\* the first: they may not sleep at all, or panic (Wait).
WaitsInBounds ==
    [][pc = "wait" /\ pc' = "ask" =>
          LET slept == strategy'.last
          IN  /\ slept <= strategy.max
              /\ NoOverflow(Delay(strategy)) =>
                    /\ slept >= 1
                    /\ slept = strategy.max \/ 2 * slept >= Delay(strategy)]_vars

\* Every pull returns, or dies with its process: the attempts of a client are
\* used up at some time, the observer of a download ends when it is told to,
\* and nothing panics (Pull, Wait, InspectContents, Observe).
PullReturns == pc = "ask" ~> pc \in {"returned", "idle"}

\* Nobody is locked out for good by what has been downloaded, nor by a file that
\* cannot be parsed: if there is something to download again and again, it is
\* admitted again and again, for this client or the other (SumUpDownloadStats).
LimitLifts ==
    []<>(pc = "validate") => []<>(pc = "load") \/ []<><<OtherValidates>>_volumeVars

\* A strategy makes its attempts and then returns the error "maximum retries
\* exceeded", its delays having an upper bound: a Wait never panics.
NeverPanics == pc # "panic"
=============================================================================
