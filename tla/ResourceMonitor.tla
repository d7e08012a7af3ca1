---------------------------- MODULE ResourceMonitor ----------------------------
(* The tasks of security/resource_limits.rs: a monitor for memory and one for *)
(* the processor, the report, and enforce_limits, which any task may call.    *)
(* They share four fair read-write locks.  enforce_limits keeps its read      *)
(* guards to the end and asks for the write guard of last_enforcement while   *)
(* it still reads it: a task that gets there ("stamp") waits for itself, so   *)
(* no action leads on.  The processor's monitor divides a percentage by a     *)
(* hundred before it compares, so it finds no violation.  Mount permits are   *)
(* part of MountDaemon.                                                       *)
EXTENDS FiniteSets

CONSTANTS Enforcers     \* tasks that call enforce_limits

ASSUME ResourceAssumption == Enforcers \cap {"memory", "processor", "report"} = {}

VARIABLES action,       \* violation_action
          high,         \* what usage says of memory: above the threshold
          load,         \* what the machine says
          graceOver,    \* grace_period_secs have passed since last_enforcement
          stands        \* where each task stands

ResourceVars == <<action, high, load, graceOver, stands>>

Actions == {"Warn", "Throttle", "Reject", "Terminate"}
Monitors == {"memory", "processor"}
Tasks == Monitors \cup Enforcers \cup {"report"}
\* Each phase is named for the lock that is asked for next, or for what is done.
TaskPhases == {"idle", "system", "usage", "violations", "last", "decide",
               "stamp", "end"}

ResourceTypeOK ==
  /\ action \in Actions /\ {high, load, graceOver} \subseteq BOOLEAN
  /\ stands \in [Tasks -> TaskPhases]

ResourceInit ==
  /\ action \in Actions /\ high = FALSE /\ load = FALSE /\ graceOver = FALSE
  /\ stands = [t \in Tasks |-> "idle"]

Readers == Enforcers \cup {"report"}
At(t, phases) == stands[t] \in phases
\* The guards a task holds follow from where it stands.  The monitors' write guards
\* of usage and violations are dropped at once; that of system is kept to the end.
SystemFree == \A m \in Monitors : At(m, {"idle", "system"})
UsageRead(t) == t \in Readers /\ ~At(t, {"idle", "usage"})
ViolationsRead(t) == t \in Readers /\ ~At(t, {"idle", "usage", "violations"})
Go(t, from, to) == stands[t] = from /\ stands' = [stands EXCEPT ![t] = to]

-----------------------------------------------------------------------------
(* monitor_memory_usage and monitor_cpu_usage *)

MonitorTick(m) == m \in Monitors /\ Go(m, "idle", "system")
                  /\ UNCHANGED <<action, high, load, graceOver>>

RefreshSystem(m) == SystemFree /\ m \in Monitors /\ Go(m, "system", "usage")
                    /\ UNCHANGED <<action, high, load, graceOver>>

WriteUsage(m) ==
  /\ m \in Monitors /\ ~\E t \in Tasks : UsageRead(t)
  /\ Go(m, "usage", IF m = "memory" /\ load THEN "violations" ELSE "end")
  /\ high' = IF m = "memory" THEN load ELSE high
  /\ UNCHANGED <<action, load, graceOver>>

PushViolation(m) ==
  /\ m \in Monitors /\ ~\E t \in Tasks : ViolationsRead(t)
  /\ Go(m, "violations", "end") /\ UNCHANGED <<action, high, load, graceOver>>

TaskEnds(t) == Go(t, "end", "idle") /\ UNCHANGED <<action, high, load, graceOver>>

-----------------------------------------------------------------------------
(* generate_resource_report and enforce_limits *)

StartReading(t) == t \in Readers /\ Go(t, "idle", "usage")
                   /\ UNCHANGED <<action, high, load, graceOver>>

\* A monitor that waits to write goes before those who ask to read after it.
Waiting(phase) == \E m \in Monitors : stands[m] = phase

ReadUsage(t) ==
  /\ t \in Readers /\ ~Waiting("usage") /\ Go(t, "usage", "violations")
  /\ UNCHANGED <<action, high, load, graceOver>>

\* Faulty: the machine is looked at again, under its own guard.
ReadViolationsAfresh(t) ==
  /\ t \in Readers /\ ~Waiting("violations") /\ SystemFree
  /\ Go(t, "violations", IF t = "report" THEN "end" ELSE "last")
  /\ UNCHANGED <<action, high, load, graceOver>>

ReadViolations(t) ==
  /\ t \in Readers /\ ~Waiting("violations")
  /\ Go(t, "violations", IF t = "report" THEN "end" ELSE "last")
  /\ UNCHANGED <<action, high, load, graceOver>>

\* No task writes last_enforcement without reading it, so a reader finds it free
\* unless one waits to write it: the lock is fair.
ReadLast(t) ==
  /\ t \in Enforcers /\ ~\E e \in Enforcers : stands[e] = "stamp"
  /\ Go(t, "last", "decide")
  /\ UNCHANGED <<action, high, load, graceOver>>

Decide(t) ==
  /\ stands[t] = "decide"
  /\ Go(t, "decide", IF graceOver /\ high /\ action \in {"Warn", "Throttle"}
                     THEN "stamp" ELSE "end")
  /\ ~(graceOver /\ high /\ action = "Terminate")
  /\ UNCHANGED <<action, high, load, graceOver>>

\* std::process::exit, and the process that is started after it
ExitProcess(t) ==
  /\ stands[t] = "decide" /\ graceOver /\ high /\ action = "Terminate"
  /\ high' = FALSE /\ graceOver' = FALSE /\ stands' = [u \in Tasks |-> "idle"]
  /\ UNCHANGED <<action, load>>

-----------------------------------------------------------------------------
LoadChanges == load' = ~load /\ UNCHANGED <<action, high, graceOver, stands>>
GraceEnds == ~graceOver /\ graceOver' = TRUE /\ UNCHANGED <<action, high, load, stands>>

TaskSteps(t) ==
  \/ RefreshSystem(t) \/ WriteUsage(t) \/ PushViolation(t) \/ TaskEnds(t)
  \/ ReadUsage(t) \/ ReadViolations(t) \/ ReadLast(t)
  \/ Decide(t) \/ ExitProcess(t)

ResourceNext ==
  \/ \E t \in Tasks : MonitorTick(t) \/ StartReading(t) \/ TaskSteps(t)
  \/ LoadChanges \/ GraceEnds

ResourceSpec == ResourceInit /\ [][ResourceNext]_ResourceVars

-----------------------------------------------------------------------------
(* Properties *)

\* The four locks are never waited for in a circle: of the rounds, reports and
\* enforcements under way one can always go on, unless an enforcement waits for its
\* own read guard of last_enforcement, behind which the monitors queue while they
\* keep the machine's guard.
SomeoneGoesOn ==
  (\E t \in Tasks : stands[t] # "idle") /\ (\A e \in Enforcers : stands[e] # "stamp")
    => \E t \in Tasks : ENABLED TaskSteps(t)
=============================================================================
