---------------------------- MODULE LoginLimiter ----------------------------
(***************************************************************************)
(* loginLimiter (internal/api/ratelimit.go): the sliding window of failed  *)
(* logins of one client at one instance.  The hits are kept by age, in     *)
(* ticks and oldest first; ages beyond the window are all the same.        *)
(***************************************************************************)
EXTENDS Integers, Sequences

CONSTANTS
  MaxAttempts,   \* maxAttempts
  Window         \* window, in ticks

ASSUME LimiterAssumption == MaxAttempts \in Nat \ {0} /\ Window \in Nat \ {0}

\* pruneLocked's loop, after the first n hits: what is strictly younger than the window.
Kept(hits) ==
  LET kept[n \in 0 .. Len(hits)] ==
        IF n = 0 THEN <<>>
        ELSE IF hits[n] < Window THEN Append(kept[n - 1], hits[n]) ELSE kept[n - 1]
  IN  kept

Prune(hits) == Kept(hits)[Len(hits)]

\* Mutant of UnderLimit: the attempt that is about to be made is not counted.
UnderOrAtLimit(hits) == Len(Prune(hits)) <= MaxAttempts

\* underLimit; it stores what it pruned and records nothing.
UnderLimit(hits) == Len(Prune(hits)) < MaxAttempts

\* allow, called after a failed login: whether the failure is recorded.
Allow(hits) == Len(Prune(hits)) < MaxAttempts

Recorded(hits) == IF Allow(hits) THEN Append(Prune(hits), 0) ELSE Prune(hits)

\* A tick of the clock.
Older(hits) == [i \in DOMAIN hits |-> IF hits[i] < Window THEN hits[i] + 1 ELSE Window]
=============================================================================
