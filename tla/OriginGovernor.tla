--------------------------- MODULE OriginGovernor ---------------------------
(***************************************************************************)
(* crates/runtime/src/origin.rs: what one origin may be asked to do, as    *)
(* operators on its State.  An origin the map has forgotten is the default *)
(* state.  Times are milliseconds of the scheduler's clock; the failures   *)
(* and the doubling saturate above anything the limits let through.        *)
(***************************************************************************)
EXTENDS Integers

CONSTANTS
  OriginConnections,    \* connections one origin may carry across all jobs
  FailuresBeforePause,  \* consecutive failures tolerated
  PauseMs,              \* the first stand-down
  MaximumPauseMs        \* the longest, whoever asks for it

ASSUME LimitsAssumption ==
  /\ {OriginConnections, FailuresBeforePause, PauseMs, MaximumPauseMs} \subseteq Nat \ {0}
  /\ PauseMs <= MaximumPauseMs

Least(a, b)    == IF a <= b THEN a ELSE b
Greatest(a, b) == IF a >= b THEN a ELSE b

Default == [in_flight |-> 0, failures |-> 0, backoff_until |-> 0, floor_until |-> 0]

ReadyAt(s) == Greatest(s.backoff_until, s.floor_until)

\* Nothing granted, no failure and no stand-down left: the origin is forgotten.
Forgetting(s, now) ==
  IF s.in_flight = 0 /\ s.failures = 0 /\ ReadyAt(s) <= now THEN Default ELSE s

PauseFor(failures) ==
  LET shift == Least(Greatest(failures - 1, 0), 31)
  IN  Least(PauseMs * 2^shift, MaximumPauseMs)

\* admit: what the origin grants now.
Grant(s, want, now) ==
  IF now < ReadyAt(s) THEN 0
  ELSE Least(want, Greatest(OriginConnections - s.in_flight, 0))

Granted(s, grant) == [s EXCEPT !.in_flight = @ + grant]

Released(s, granted, now) ==
  Forgetting([s EXCEPT !.in_flight = Greatest(@ - granted, 0)], now)

\* Mutant: bytes that arrive revoke what the server asked for.
SucceededForgiven(s, now) ==
  Forgetting([s EXCEPT !.failures = 0, !.backoff_until = 0, !.floor_until = 0], now)

Succeeded(s, now) == Forgetting([s EXCEPT !.failures = 0, !.backoff_until = 0], now)

\* How long the server's own delay binds, and 429 or 503 with it (0: it asked nothing).
Asked(retry_after) == Least(retry_after, MaximumPauseMs)

Throttled(s, retry_after, now) ==
  LET failures == s.failures + 1
  IN  [s EXCEPT !.failures = failures,
                !.floor_until = IF retry_after = 0 THEN @
                                ELSE Greatest(@, now + Asked(retry_after)),
                !.backoff_until = Greatest(@, now + PauseFor(failures))]

Failed(s, now) ==
  LET failures == s.failures + 1
      run      == failures - FailuresBeforePause + 1
  IN  [s EXCEPT !.failures = failures,
                !.backoff_until = IF run < 1 THEN @ ELSE Greatest(@, now + PauseFor(run))]
=============================================================================
