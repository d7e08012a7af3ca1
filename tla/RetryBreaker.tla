----------------------------- MODULE RetryBreaker -----------------------------
(* The retry handler of monitoring/retry.rs for one mount: callers that run an   *)
(* operation again and again, and the circuit breaker they share.  A caller      *)
(* looks at a copy of the breaker, runs the operation without any lock, and      *)
(* records the outcome.  Time is the age of the opening, up to open_timeout.     *)
EXTENDS Integers, FiniteSets

CONSTANTS Callers,      \* concurrent execute_with_retry calls
          MaxAttempts,  \* RetryPolicy.max_attempts, also the breaker's threshold
          OpenTimeout   \* ticks a breaker stays open

ASSUME BreakerAssumption == /\ MaxAttempts \in Nat \ {0} /\ OpenTimeout \in Nat \ {0}
                            /\ IsFiniteSet(Callers)

VARIABLES breaker,      \* the CircuitBreakerState, or NoBreaker
          call          \* where each caller stands, and its attempts

BreakerVars == <<breaker, call>>

NoBreaker == [made |-> FALSE, failures |-> 0, open |-> FALSE, age |-> 0]
Closed == [made |-> TRUE, failures |-> 0, open |-> FALSE, age |-> 0]
Out == [at |-> "out", attempts |-> 0]

\* Bound: failures are counted up to this one.
ManyFailures == MaxAttempts + Cardinality(Callers)

BreakerTypeOK ==
  /\ breaker \in [made: BOOLEAN, failures: 0..ManyFailures, open: BOOLEAN,
                  age: 0..OpenTimeout]
  /\ call \in [Callers -> [at: {"out", "check", "running", "waiting"},
                           attempts: 0..MaxAttempts]]

BreakerInit == breaker = NoBreaker /\ call = [c \in Callers |-> Out]

\* Faulty: one tick early.
AllowsEarly(b) == ~b.open \/ b.age = OpenTimeout - 1

\* should_allow_attempt: closed, or opened open_timeout ago; opened_at is set
\* when the breaker opens and not by the failures after it.
AllowsAttempt(b) == ~b.open \/ b.age = OpenTimeout

CallBegins(c) ==
  /\ call[c] = Out
  /\ call' = [call EXCEPT ![c].at = "check"]
  /\ UNCHANGED breaker

\* get_circuit_breaker makes the breaker at first use.
Admit(c) ==
  LET found == IF breaker.made THEN breaker ELSE Closed
  IN /\ call[c].at = "check"
     /\ breaker' = found
     /\ call' = [call EXCEPT ![c] =
                   IF AllowsAttempt(found)
                   THEN [at |-> "running", attempts |-> @.attempts + 1] ELSE Out]

\* update_circuit_breaker with a success, and reset.
RecordSuccess == breaker' = IF breaker.made THEN Closed ELSE NoBreaker

Succeed(c) ==
  /\ call[c].at = "running" /\ RecordSuccess
  /\ call' = [call EXCEPT ![c] = Out]

ResetBreaker == RecordSuccess /\ UNCHANGED call

RecordFailure ==
  LET count == breaker.failures + 1
  IN breaker' = [breaker EXCEPT
                   !.failures = IF count > ManyFailures THEN ManyFailures ELSE count,
                   !.open = @ \/ count >= MaxAttempts,
                   !.age = IF breaker.open THEN @ ELSE 0]

\* Faulty: the attempts are counted anew when they are used up.
FailAnew(c) ==
  /\ call[c].at = "running" /\ RecordFailure
  /\ call' = [call EXCEPT ![c] =
                [at |-> "waiting",
                 attempts |-> IF @.attempts >= MaxAttempts THEN 0 ELSE @.attempts]]

\* The caller gives up at max_attempts; the backoff may be exhausted before.
Fail(c) ==
  /\ call[c].at = "running" /\ RecordFailure
  /\ \E next \in {"waiting", "out"} :
       call' = [call EXCEPT ![c] =
                  IF next = "out" \/ @.attempts >= MaxAttempts THEN Out
                  ELSE [@ EXCEPT !.at = "waiting"]]

BackoffEnds(c) ==
  /\ call[c].at = "waiting" /\ call' = [call EXCEPT ![c].at = "check"]
  /\ UNCHANGED breaker

BreakerAges ==
  /\ breaker.open /\ breaker.age < OpenTimeout
  /\ breaker' = [breaker EXCEPT !.age = @ + 1]
  /\ UNCHANGED call

BreakerNext ==
  \/ \E c \in Callers : CallBegins(c) \/ Admit(c) \/ Succeed(c) \/ Fail(c)
                        \/ BackoffEnds(c)
  \/ ResetBreaker \/ BreakerAges

BreakerFairness ==
  /\ \A c \in Callers : WF_BreakerVars(Admit(c) \/ Succeed(c) \/ Fail(c)
                                       \/ BackoffEnds(c))
  /\ WF_BreakerVars(BreakerAges)

BreakerSpec == BreakerInit /\ [][BreakerNext]_BreakerVars /\ BreakerFairness

-----------------------------------------------------------------------------
(* Properties *)

\* A breaker that has just opened lets no new operation start; the failures it
\* counts meanwhile are those of operations already running, so it never counts
\* more than the threshold and one for every other caller.
OverrunIsBounded ==
  breaker.open /\ breaker.age < OpenTimeout =>
    breaker.failures
      + Cardinality({c \in Callers : call[c].at = "running"})
      < MaxAttempts + Cardinality(Callers)

\* Every call ends, by success, by the breaker or by its attempts, whatever the
\* other callers of the mount do to the breaker between its attempts.
CallEnds == \A c \in Callers : call[c].at # "out" ~> call[c].at = "out"
=============================================================================
