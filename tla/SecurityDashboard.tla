-------------------------- MODULE SecurityDashboard -------------------------
(* SecurityDashboard: audit events processed one at a time, the alerts they     *)
(* raise, the monitoring task's snapshots, and exports that read its parts one  *)
(* after another while events go on.                                            *)
EXTENDS Naturals, Sequences, SequencesExt, FiniteSets, FiniteSetsExt

CONSTANTS
  MaxEvents,       \* max_events, of those kept
  ListLimit,       \* how many get_recent_events returns when not told: 100
  AuthThreshold,   \* failed_auth_threshold
  MaxSnapshots,    \* snapshots kept at most
  MaxProcessed     \* bound on the events of a run

ASSUME DashboardAssumption ==
  {MaxEvents, ListLimit, AuthThreshold, MaxSnapshots, MaxProcessed} \subseteq Nat

VARIABLES
  metrics,     \* SecurityMetrics, as far as alerts and score read it
  recent,      \* recent_events, oldest first
  alerts,      \* active_alerts: kind and status, by order of creation
  raised,      \* alerts ever raised, a history variable
  current,     \* the event process_event is at, and how far it is
  snapshots,   \* historical_data, oldest first
  export       \* the export under way: what it has read

DashboardVars == <<metrics, recent, alerts, raised, current, snapshots, export>>

Severities == <<"low", "medium", "high", "critical">>
Outcomes == {"success", "failure", "blocked", "error"}
Event(t, s, o) == [type |-> t, severity |-> s, outcome |-> o]
AuditEvents ==
  {Event("auth", "low", o) : o \in {"success", "failure", "error"}}
    \cup {Event("violation", s, "blocked") : s \in {"high", "critical"}}
    \cup {Event("other", "medium", "failure")}

-----------------------------------------------------------------------------
(* What is computed of an event and of the metrics                          *)

\* calculate_severity_score: a truncated product, at most 100.
SeverityScore(e) ==
  LET base == CASE e.severity = "low" -> 25 [] e.severity = "medium" -> 50
                [] e.severity = "high" -> 75 [] e.severity = "critical" -> 90
      tenths == CASE e.outcome = "success" -> 10 [] e.outcome = "failure" -> 12
                  [] e.outcome = "blocked" -> 8 [] e.outcome = "error" -> 13
  IN Min({100, (base * tenths) \div 10})

\* enrich_event: the risk, of the severity first.
Risk(e) ==
  IF e.severity \in {"critical", "high"} THEN e.severity
  ELSE IF e.severity = "medium" \/ e.outcome \in {"failure", "error"} THEN "medium"
  ELSE "low"

Enriched(e) == [event |-> e, score |-> SeverityScore(e), risk |-> Risk(e)]

NoMetrics == [total |-> 0, attempts |-> 0, failed |-> 0, lastHour |-> 0,
              violations |-> 0, critical |-> 0]

\* update_metrics. failures_last_hour is never taken back.
Counted(m, e) ==
  LET If(b) == IF b THEN 1 ELSE 0
      failure == e.type = "auth" /\ e.outcome = "failure"
      violation == e.type = "violation"
  IN [total |-> m.total + 1,
      attempts |-> m.attempts + If(e.type = "auth"),
      failed |-> m.failed + If(failure),
      lastHour |-> m.lastHour + If(failure),
      violations |-> m.violations + If(violation),
      critical |-> m.critical + If(violation /\ e.severity = "critical")]

\* calculate_security_score, and its static twin. No component ever has the metric
\* that could change its health, so all of them count as healthy.
SecurityScore(m) ==
  LET rate(percent) == m.attempts > 0 /\ m.failed * 100 > percent * m.attempts
      auth == IF rate(10) THEN 20 ELSE IF rate(5) THEN 10 ELSE 0
      integrity == IF m.violations > 0 THEN 30 ELSE 0
      intrusion == IF m.critical > 0 THEN 40 ELSE IF m.violations > 5 THEN 20 ELSE 0
  IN 100 - auth - integrity - intrusion

-----------------------------------------------------------------------------
(* Actions                                                                  *)

NoExport == [at |-> "idle", metrics |-> NoMetrics,
             events |-> <<>>, alerts |-> 0, score |-> 0]

DashboardInit ==
  /\ metrics = NoMetrics /\ recent = <<>>
  /\ alerts = <<>> /\ raised = 0
  /\ current = [at |-> "idle"]
  /\ snapshots = <<>> /\ export = NoExport

\* The last n of a sequence.
Newest(s, n) == SubSeq(s, Max({1, Len(s) - n + 1}), Len(s))

\* process_event holds recent_events' guard from here to its end.
BeginEvent(e) ==
  /\ current.at = "idle" /\ metrics.total < MaxProcessed
  /\ recent' = Newest(Append(recent, Enriched(e)), MaxEvents)
  /\ current' = [at |-> "count", event |-> e]
  /\ UNCHANGED <<metrics, alerts, raised, snapshots, export>>

CountEvent ==
  /\ current.at = "count"
  /\ metrics' = Counted(metrics, current.event)
  /\ current' = [current EXCEPT !.at = "alert"]
  /\ UNCHANGED <<recent, alerts, raised, snapshots, export>>

\* Faulty: the one level below.
AlertsOfHigh(e) ==
  IF /\ e.type = "auth" /\ e.outcome = "failure"
     /\ metrics.lastHour >= AuthThreshold
  THEN <<"rate">>
  ELSE IF e.type = "violation" /\ e.severity = "high" THEN <<"violation">>
  ELSE <<>>

\* check_event_alerts and create_alert, with alerts enabled.
AlertsOf(e) ==
  IF /\ e.type = "auth" /\ e.outcome = "failure"
     /\ metrics.lastHour >= AuthThreshold
  THEN <<"rate">>
  ELSE IF e.type = "violation" /\ e.severity = "critical" THEN <<"violation">>
  ELSE <<>>

RaiseAlerts ==
  /\ current.at = "alert"
  /\ LET new == AlertsOf(current.event)
     IN /\ alerts' = alerts \o [i \in DOMAIN new |-> [kind |-> new[i], acked |-> FALSE]]
        /\ raised' = raised + Len(new)
  /\ current' = [at |-> "idle"]
  /\ UNCHANGED <<metrics, recent, snapshots, export>>

AcknowledgeAlert(i) ==
  /\ ~alerts[i].acked
  /\ alerts' = [alerts EXCEPT ![i].acked = TRUE]
  /\ UNCHANGED <<metrics, recent, raised, current, snapshots, export>>

ResolveAlert(i) ==
  /\ alerts' = RemoveAt(alerts, i)
  /\ UNCHANGED <<metrics, recent, raised, current, snapshots, export>>

\* A round of the monitoring task: its resource figures are constants below every
\* threshold; a snapshot is added, those beyond the limit and any number of the
\* oldest, which a week makes too old, go. Its alert count is always 0.
TakeSnapshot ==
  /\ \E n \in 0..MaxSnapshots :
       snapshots' = Newest(Append(snapshots, [metrics |-> metrics,
                             score |-> SecurityScore(metrics), alerts |-> 0]), n)
  /\ UNCHANGED <<metrics, recent, alerts, raised, current, export>>

\* export_data reads metrics, events, alerts, snapshots and score one by one; the
\* events only while none is being processed, and the newest first, as far as the
\* limit. Of the snapshots it takes those of a day; none of its figures is theirs.
ExportMetrics ==
  /\ export.at = "idle"
  /\ export' = [NoExport EXCEPT !.at = "events", !.metrics = metrics]
  /\ UNCHANGED <<metrics, recent, alerts, raised, current, snapshots>>
ExportEvents ==
  /\ export.at = "events" /\ current.at = "idle"
  /\ export' = [export EXCEPT !.at = "rest", !.events = Reverse(Newest(recent, ListLimit))]
  /\ UNCHANGED <<metrics, recent, alerts, raised, current, snapshots>>
ExportRest ==
  /\ export.at = "rest"
  /\ export' = [export EXCEPT !.at = "done", !.alerts = Len(alerts),
                              !.score = SecurityScore(metrics)]
  /\ UNCHANGED <<metrics, recent, alerts, raised, current, snapshots>>
EndExport ==
  /\ export.at = "done"
  /\ export' = NoExport
  /\ UNCHANGED <<metrics, recent, alerts, raised, current, snapshots>>

\* What a report shows of it: the number of events listed, and which figures.
Formats == {"json", "html", "csv", "xml", "pdf"}
Report(x, format) ==
  CASE format = "json" -> [listed |-> Len(x.events), shows |-> {"total", "score", "alerts", "snapshots"}]
    [] format = "html" -> [listed |-> Min({50, Len(x.events)}), shows |-> {"total", "score", "alerts"}]
    [] format = "csv" -> [listed |-> Len(x.events), shows |-> {}]
    [] format = "xml" -> [listed |-> Len(x.events), shows |-> {"total", "score"}]
    [] format = "pdf" -> [listed |-> 0, shows |-> {}]

DashboardNext ==
  \/ \E e \in AuditEvents : BeginEvent(e)
  \/ CountEvent \/ RaiseAlerts
  \/ \E i \in DOMAIN alerts : AcknowledgeAlert(i) \/ ResolveAlert(i)
  \/ TakeSnapshot
  \/ ExportMetrics \/ ExportEvents \/ ExportRest \/ EndExport

DashboardSpec == DashboardInit /\ [][DashboardNext]_DashboardVars

-----------------------------------------------------------------------------

DashboardTypeOK ==
  /\ DOMAIN metrics = DOMAIN NoMetrics /\ metrics.total \in 0..MaxProcessed
  /\ \A i \in DOMAIN recent : recent[i] \in {Enriched(e) : e \in AuditEvents}
  /\ Len(recent) <= MaxEvents /\ Len(snapshots) <= MaxSnapshots
  /\ raised \in 0..MaxProcessed
  /\ current.at \in {"idle", "count", "alert"}
  /\ export.at \in {"idle", "events", "rest", "done"}

\* Between events, an alert was raised for each failed authentication from the
\* threshold on and for each critical violation, whatever was resolved meanwhile.
\* A report that is not a page lists every event it counts, though others are
\* processed while it is made, up to the number kept and the number listed at
\* most: beyond the smaller of the two it counts more than it lists. Its score is
\* none better than its metrics give unless an authentication was counted since;
\* snapshots never take back a violation (security_dashboard.rs:547-870, 944-966).
DashboardAddsUp ==
  /\ current.at = "idle" =>
       LET first == Max({1, AuthThreshold})
       IN raised = metrics.critical + (IF metrics.failed < first THEN 0
                                       ELSE metrics.failed - first + 1)
  /\ export.at = "done" =>
       /\ \A format \in Formats :
            Report(export, format).shows # {} /\ format # "html" =>
              Report(export, format).listed
                >= Min({MaxEvents, ListLimit, export.metrics.total})
       /\ export.metrics.attempts = metrics.attempts =>
            export.score <= SecurityScore(export.metrics)
  /\ \A i, j \in DOMAIN snapshots :
       i < j => snapshots[i].metrics.violations <= snapshots[j].metrics.violations
=============================================================================
