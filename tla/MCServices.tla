----------------------------- MODULE MCServices -----------------------------
(* The components whose calls must end, and others beside them, for TLC: each   *)
(* initial state chooses one of them, which runs alone.                         *)
EXTENDS SyncCoordinator,
        RetryBreaker, MountStateMachine, DependencyGraph, HealthScheduler,
        ConfigLocks, CredentialBackup, AuditLog, IntrusionDetection,
        AuditMonitor

VARIABLE part     \* the component that runs

Parts == {"Sync", "Breaker", "Machine", "Graph", "Scheduler", "Locks",
          "Backup", "Audit", "Intrusion", "Monitor"}

MCInit ==
  /\ part \in Parts
  /\ SyncInit /\ BreakerInit /\ MachineInit /\ GraphInit /\ SchedulerInit
  /\ LocksInit /\ BackupInit /\ AuditInit /\ IntrusionInit /\ MonitorInit

\* Only the chosen component moves; the others stay as they began.
Others(p) ==
  /\ p # "Sync" => UNCHANGED SyncVars
  /\ p # "Breaker" => UNCHANGED BreakerVars
  /\ p # "Machine" => UNCHANGED MachineVars
  /\ p # "Graph" => UNCHANGED GraphVars
  /\ p # "Scheduler" => UNCHANGED SchedulerVars
  /\ p # "Locks" => UNCHANGED LocksVars
  /\ p # "Backup" => UNCHANGED BackupVars
  /\ p # "Audit" => UNCHANGED AuditVars
  /\ p # "Intrusion" => UNCHANGED IntrusionVars
  /\ p # "Monitor" => UNCHANGED MonitorVars
Only(p) == part = p /\ Others(p) /\ UNCHANGED part

MCNext ==
  \/ Only("Sync") /\ SyncNext
  \/ Only("Breaker") /\ BreakerNext
  \/ Only("Machine") /\ MachineNext
  \/ Only("Graph") /\ GraphNext
  \/ Only("Scheduler") /\ SchedulerNext
  \/ Only("Locks") /\ LocksNext
  \/ Only("Backup") /\ BackupNext
  \/ Only("Audit") /\ AuditNext
  \/ Only("Intrusion") /\ IntrusionNext
  \/ Only("Monitor") /\ MonitorNext

MCVars == <<SyncVars, BreakerVars, MachineVars, GraphVars, SchedulerVars,
            LocksVars, BackupVars, AuditVars, IntrusionVars, MonitorVars,
            part>>

MCSpec == MCInit /\ [][MCNext]_MCVars
          /\ SyncFairness
          /\ BreakerFairness
          /\ SchedulerFairness

\* The type invariant of the one that runs.
ServiceTypes ==
  /\ part = "Sync" => SyncTypeOK
  /\ part = "Breaker" => BreakerTypeOK
  /\ part = "Machine" => MachineTypeOK
  /\ part = "Graph" => GraphTypeOK
  /\ part = "Scheduler" => SchedulerTypeOK
  /\ part = "Locks" => LocksTypeOK
  /\ part = "Backup" => BackupTypeOK
  /\ part = "Audit" => AuditTypeOK
  /\ part = "Intrusion" => IntrusionTypeOK
  /\ part = "Monitor" => MonitorTypeOK

\* A burst is seen by one alert at least, and alerts do not crowd
\* (intrusion_detection.rs, audit_monitoring.rs).
AlarmsStand ==
  /\ part = "Intrusion" => BurstsAreSeen
  /\ part = "Monitor" => AlertsSpaced
=============================================================================
