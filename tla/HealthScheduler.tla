--------------------------- MODULE HealthScheduler ---------------------------
(* The health checks a mount is registered for (monitoring/scheduler.rs and the *)
(* manager above it, monitoring/mod.rs).  A registration is four awaits: the     *)
(* mount's configuration, the registry entry, the cron job, the manager's list.  *)
(* A removal keeps the registry's guard to its end, so that it is one step, and  *)
(* then the list.  Nothing calls JobScheduler::start, so no cron job ever runs   *)
(* and last_statuses stays empty: what is left of it is its jobs.                *)
EXTENDS Integers, FiniteSets

CONSTANTS Watched,     \* mount ids
          Jobs,        \* bound: cron jobs alive or referred to at one time
          NoWatch,     \* no mount
          NoJob        \* job_id: None

ASSUME SchedulerAssumption == NoWatch \notin Watched /\ NoJob \notin Jobs

VARIABLES ticking,     \* scheduler is Some
          registry,    \* health_checks: the job id of each registered mount
          registered,  \* the keys of health_checks
          configured,  \* the keys of mount_configs
          cron,        \* the jobs the JobScheduler holds, and whose they are
          adding,      \* where each add_mount call stands
          removing,    \* remove_mount calls that have yet to clear the list
          monitored,   \* the manager's mounts
          jammed,      \* trigger_health_check waits for its own read guard
          overtaken,   \* of the properties only: removed while being added
          again,       \* of the properties only: registered once more
          refused      \* of the properties only: jobs whose removal failed

SchedulerVars == <<ticking, registry, registered, configured, cron, adding,
                   removing, monitored, jammed, overtaken, again, refused>>

SchedulerTypeOK ==
  /\ ticking \in BOOLEAN /\ jammed \in BOOLEAN
  /\ registry \in [Watched -> Jobs \cup {NoJob}]
  /\ cron \in [Jobs -> Watched \cup {NoWatch}]
  /\ adding \in [Watched -> {"idle", "enter", "schedule", "list"}]
  /\ refused \subseteq Jobs
  /\ \A s \in {registered, configured, removing, monitored, overtaken, again} :
       s \subseteq Watched

SchedulerInit ==
  /\ ticking = FALSE /\ jammed = FALSE
  /\ registry = [w \in Watched |-> NoJob] /\ cron = [j \in Jobs |-> NoWatch]
  /\ adding = [w \in Watched |-> "idle"]
  /\ registered = {} /\ configured = {} /\ removing = {} /\ monitored = {}
  /\ overtaken = {} /\ again = {} /\ refused = {}

-----------------------------------------------------------------------------
\* JobScheduler::new may fail, which changes nothing.
StartChecks ==
  /\ ~ticking /\ ticking' = TRUE
  /\ UNCHANGED <<registry, registered, configured, cron, adding, removing,
                 monitored, jammed, overtaken, again, refused>>

\* The jobs go with their scheduler, which is taken out before its shutdown may fail;
\* the registry keeps their ids, and a later start schedules nothing anew.
StopChecks ==
  /\ ticking /\ ticking' = FALSE
  /\ cron' = [j \in Jobs |-> NoWatch] /\ again' = {} /\ refused' = {}
  /\ UNCHANGED <<registry, registered, configured, adding, removing, monitored,
                 jammed, overtaken>>

\* Ids are never used twice; the model takes them from those nothing refers to,
\* and begins no call that would not find one.
FreeJobs == {j \in Jobs : cron[j] = NoWatch /\ \A v \in Watched : registry[v] # j}
Adding == {v \in Watched : adding[v] # "idle"}

\* register_health_checks, its three guards one after another.
StoreConfig(w) ==
  /\ adding[w] = "idle" /\ Cardinality(FreeJobs) > Cardinality(Adding)
  /\ configured' = configured \cup {w}
  /\ overtaken' = overtaken \ {w}
  /\ adding' = [adding EXCEPT ![w] = "enter"]
  /\ UNCHANGED <<ticking, registry, registered, cron, removing, monitored, jammed,
                 again, refused>>

EnterRegistry(w) ==
  /\ adding[w] = "enter" /\ ~jammed
  /\ registered' = registered \cup {w}
  /\ registry' = [registry EXCEPT ![w] = NoJob]
  /\ again' = IF w \in registered THEN again \cup {w} ELSE again
  /\ adding' = [adding EXCEPT ![w] = "schedule"]
  /\ UNCHANGED <<ticking, configured, cron, removing, monitored, jammed, overtaken, refused>>

\* Faulty: it waits for the entry and the scheduler instead.
ScheduleWaits(w) ==
  /\ adding[w] = "schedule" /\ ~jammed
  /\ w \in registered /\ ticking
  /\ \E j \in FreeJobs : cron' = [cron EXCEPT ![j] = w]
                        /\ registry' = [registry EXCEPT ![w] = j]
  /\ adding' = [adding EXCEPT ![w] = "list"]
  /\ UNCHANGED <<ticking, registered, configured, removing, monitored, jammed,
                 overtaken, again, refused>>

\* schedule_health_check fails when the entry is gone, when the scheduler is not
\* running, or when it does not take the job; what was stored stays.
ScheduleCheck(w) ==
  /\ adding[w] = "schedule" /\ ~jammed
  /\ \/ /\ w \in registered /\ ticking
        /\ \E j \in FreeJobs : /\ cron' = [cron EXCEPT ![j] = w]
                              /\ registry' = [registry EXCEPT ![w] = j]
        /\ adding' = [adding EXCEPT ![w] = "list"]
     \/ /\ adding' = [adding EXCEPT ![w] = "idle"]
        /\ UNCHANGED <<cron, registry>>
  /\ UNCHANGED <<ticking, registered, configured, removing, monitored, jammed,
                 overtaken, again, refused>>

ListMount(w) ==
  /\ adding[w] = "list"
  /\ monitored' = monitored \cup {w}
  /\ adding' = [adding EXCEPT ![w] = "idle"]
  /\ UNCHANGED <<ticking, registry, registered, configured, cron, removing, jammed,
                 overtaken, again, refused>>

\* Faulty: the cron job stays.
UnregisterOnly(w) ==
  /\ ~jammed /\ w \notin removing
  /\ registry' = [registry EXCEPT ![w] = NoJob]
  /\ registered' = registered \ {w} /\ configured' = configured \ {w}
  /\ overtaken' = IF adding[w] = "idle" THEN overtaken ELSE overtaken \cup {w}
  /\ removing' = removing \cup {w}
  /\ UNCHANGED <<ticking, cron, adding, monitored, jammed, again, refused>>

\* unregister_health_checks: a job is removed only when its id is known and the
\* scheduler runs; where that fails the entry has gone already, and the rest follows.
Unregister(w) ==
  /\ ~jammed /\ w \notin removing
  /\ LET own == {j \in Jobs : ticking /\ registry[w] = j /\ cron[j] # NoWatch}
     IN \E kept \in SUBSET own :
          /\ cron' = [j \in Jobs |-> IF j \in own \ kept THEN NoWatch ELSE cron[j]]
          /\ refused' = refused \cup kept
  /\ registry' = [registry EXCEPT ![w] = NoJob]
  /\ registered' = registered \ {w} /\ configured' = configured \ {w}
  /\ overtaken' = IF adding[w] = "idle" THEN overtaken ELSE overtaken \cup {w}
  /\ removing' = removing \cup {w}
  /\ UNCHANGED <<ticking, adding, monitored, jammed, again>>

Unlist(w) ==
  /\ w \in removing /\ removing' = removing \ {w}
  /\ monitored' = monitored \ {w}
  /\ UNCHANGED <<ticking, registry, registered, configured, cron, adding, jammed,
                 overtaken, again, refused>>

\* trigger_health_check keeps the read guard over run_health_checks, which asks
\* for the write guard.
Trigger(w) ==
  /\ w \in registered /\ ~jammed /\ jammed' = TRUE
  /\ UNCHANGED <<ticking, registry, registered, configured, cron, adding, removing,
                 monitored, overtaken, again, refused>>

AddStep(w) == EnterRegistry(w) \/ ScheduleCheck(w) \/ ListMount(w)

SchedulerNext ==
  \/ StartChecks \/ StopChecks
  \/ \E w \in Watched : \/ StoreConfig(w) \/ AddStep(w) \/ Unregister(w)
                        \/ Unlist(w) \/ Trigger(w)

SchedulerFairness == \A w \in Watched : WF_SchedulerVars(AddStep(w))

SchedulerSpec ==
  SchedulerInit /\ [][SchedulerNext]_SchedulerVars /\ SchedulerFairness

-----------------------------------------------------------------------------
(* Properties *)

\* A registered mount has the configuration its checks need, unless a removal
\* overtook its registration; and a cron job that the registry does not know, which
\* nobody can remove any more, is left only where a mount was registered again, or
\* where the scheduler refused to remove that job (scheduler.rs:142-220).
RegistryMatchesJobs ==
  /\ \A w \in registered \ overtaken : w \in configured
  /\ \A j \in Jobs : cron[j] # NoWatch /\ registry[cron[j]] # j =>
       cron[j] \in again \/ j \in refused

\* An add_mount call returns, whatever is started, stopped or removed meanwhile;
\* only a triggered check, which waits for itself, can hold it up.
AddEnds == \A w \in Watched : adding[w] # "idle" ~> adding[w] = "idle" \/ jammed
=============================================================================
