------------------------------- MODULE Backoff -------------------------------
(***************************************************************************)
(* retry: Retry with the combined strategy of a limit and an exponential   *)
(* backoff, for a function that keeps failing.  Durations are integers of  *)
(* a fixed width, as in Go: doubling wraps around.                         *)
(***************************************************************************)
EXTENDS Integers, Sequences, FiniteSetsExt

CONSTANTS Half,     \* durations are -Half..(Half - 1)
          Limits    \* limits to try

ASSUME BackoffAssumption == Half \in Nat \ {0} /\ Limits \subseteq Nat

VARIABLES
  shortest, longest, limit,  \* the parameters of the strategies
  sleeps,                    \* how long Retry slept, so far
  outcome                    \* "trying", or how Retry returned

backoffVars == <<shortest, longest, limit, sleeps, outcome>>

Durations == (-Half)..(Half - 1)
Wrap(n) == ((n + Half) % (2 * Half)) - Half

\* Mutant: doubled without a look at what is left.
DoubledWraps(sleep, max) == Wrap(2 * sleep)

\* "Doubling past half of max would at best land on max and at worst wrap
\* around."
Doubled(sleep, max) == IF sleep > max \div 2 THEN max ELSE Wrap(2 * sleep)

\* ExponentialStrategy, for the count-th retry.
ExponentialStrategy(min, max, count) ==
  LET after[i \in 1..count] ==
        IF i = 1 THEN min
        ELSE IF after[i - 1] > 0 /\ after[i - 1] < max
             THEN Doubled(after[i - 1], max) ELSE after[i - 1]
  IN  Min({after[count], max})

LimitStrategy(count) == count >= limit

\* CombinedStrategy: the longest of the sleeps, none of them below zero.
CombinedStrategy(count) == Max({0, ExponentialStrategy(shortest, longest, count)})

BackoffInit ==
  /\ shortest \in Durations /\ longest \in Durations
  /\ limit \in Limits
  /\ sleeps = <<>>
  /\ outcome = "trying"

\* One call of the function: it succeeds, fails for good or for now.
Attempt ==
  /\ outcome = "trying"
  /\ \E result \in {"ok", "failed", "retry"} :
       LET count == Len(sleeps) + 1
       IN  IF result = "retry" /\ ~LimitStrategy(count)
           THEN sleeps' = Append(sleeps, CombinedStrategy(count)) /\ UNCHANGED outcome
           ELSE /\ outcome' = IF result = "retry" THEN "gave up" ELSE result
                /\ UNCHANGED sleeps
  /\ UNCHANGED <<shortest, longest, limit>>

\* The context ends during the function or the sleep.
ContextDone ==
  /\ outcome = "trying"
  /\ outcome' = "cancelled"
  /\ UNCHANGED <<shortest, longest, limit, sleeps>>

BackoffNext == Attempt \/ ContextDone

BackoffSpec == BackoffInit /\ [][BackoffNext]_backoffVars

-----------------------------------------------------------------------------
\* n, doubled k times.
Doublings(n, k) ==
  LET times[i \in 0..k] == IF i = 0 THEN n ELSE 2 * times[i - 1]
  IN  times[k]

\* The sleeps double from the shortest to the longest and stay there, for
\* every pair of durations: near the largest duration too they never turn
\* negative, which would retry at once, and never exceed the longest.
SleepsDouble ==
  \A i \in DOMAIN sleeps :
    sleeps[i] = IF shortest <= 0 THEN Max({0, Min({shortest, longest})})
                ELSE Max({0, Min({Doublings(shortest, i - 1), longest})})
=============================================================================
