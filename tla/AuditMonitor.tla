----------------------------- MODULE AuditMonitor -----------------------------
(* The monitoring loop of security/audit_monitoring.rs.  Each event is added  *)
(* to the history, and every detector then looks at the whole history again:  *)
(* a source with enough events in the window gives an alert, at every event   *)
(* anew.  An alert is stored unless an active one of its type is younger than *)
(* alert_cooldown. Acknowledging and resolving come from other tasks at any   *)
(* time.  An event counts for one detector here; what makes it count is left  *)
(* out.                                                                       *)
EXTENDS Integers, FiniteSets, SequencesExt

CONSTANTS Sources,        \* users and addresses
          AlertTypes,     \* one per detector; the smaller numbers have priority
          AlertThreshold, \* events of a source in the window that give an alert
          Window,         \* analysis_window and failed_auth_window
          Cooldown,       \* alert_cooldown
          PerEvent,       \* max_alerts_per_minute, which is counted per event
          HistorySize,    \* history_size
          MaxTime,        \* bound: the clock
          MaxReceived     \* bound: events

ASSUME MonitorAssumption ==
  /\ AlertTypes \subseteq Nat /\ AlertThreshold \in Nat \ {0} /\ HistorySize \in Nat
  /\ {Window, Cooldown, PerEvent, MaxTime, MaxReceived} \subseteq Nat

VARIABLES now,            \* the clock
          received,       \* events received
          past,           \* event_history, oldest first
          loop,           \* the monitoring loop: alerts still to be looked at
          raised          \* active_alerts

MonitorVars == <<now, received, past, loop, raised>>

Event == [source: Sources, type: AlertTypes, time: 0..MaxTime]
Alert == [source: Sources, type: AlertTypes, time: 0..MaxTime]
Idle == [at |-> "receive", found |-> {}, sent |-> 0]

\* The limit is tested after an alert, so that a limit of 0 lets one through.
AtMost == IF PerEvent = 0 THEN 1 ELSE PerEvent

MonitorTypeOK ==
  /\ now \in 0..MaxTime /\ received \in 0..MaxReceived
  /\ past \in BoundedSeq(Event, HistorySize)
  /\ loop.at \in {"receive", "analyze", "send"} /\ loop.found \subseteq Alert
  /\ loop.sent \in 0..AtMost
  /\ raised \subseteq [alert: Alert, copy: 1..MaxReceived,
                       status: {"Active", "Investigating"}]

MonitorInit == now = 0 /\ received = 0 /\ past = <<>> /\ loop = Idle /\ raised = {}

-----------------------------------------------------------------------------
(* The loop of start_monitoring *)

ReceiveEvent(s, k) ==
  /\ loop.at = "receive" /\ received < MaxReceived
  /\ received' = received + 1
  /\ LET longer == Append(past, [source |-> s, type |-> k, time |-> now])
     IN past' = IF Len(longer) > HistorySize THEN Tail(longer) ELSE longer
  /\ loop' = [loop EXCEPT !.at = "analyze"]
  /\ UNCHANGED <<now, raised>>

\* PatternDetector::analyze
InWindow(s, k) == {i \in DOMAIN past : /\ past[i].source = s /\ past[i].type = k
                                       /\ past[i].time > now - Window}
Suspects == {p \in Sources \X AlertTypes :
               Cardinality(InWindow(p[1], p[2])) >= AlertThreshold}

Analyze ==
  /\ loop.at = "analyze"
  /\ loop' = [at |-> "send", sent |-> 0,
              found |-> {[source |-> p[1], type |-> p[2], time |-> now] :
                           p \in Suspects}]
  /\ UNCHANGED <<now, received, past, raised>>

\* should_send_alert: an active alert of the type, from any source
Suppressed(a) == \E r \in raised : /\ r.alert.type = a.type /\ r.status = "Active"
                                   /\ a.time - r.alert.time < Cooldown
\* The loop takes the types by priority and drops the rest when it has sent enough.
NextAlert(a) == /\ loop.at = "send" /\ a \in loop.found
                /\ \A b \in loop.found : a.type <= b.type
Passed(a, sent) == [loop EXCEPT !.sent = sent,
                                !.found = IF sent >= PerEvent THEN {} ELSE @ \ {a}]

\* Faulty: the alerts found together are compared with the stored ones only once.
PassTogether(a) ==
  /\ NextAlert(a)
  /\ loop' = Passed(a, IF Suppressed(a) THEN loop.sent ELSE loop.sent + 1)
  /\ raised' = raised \cup
       {[alert |-> b, copy |-> received, status |-> "Active"] :
          b \in {c \in loop.found : ~Suppressed(c)}}
  /\ UNCHANGED <<now, received, past>>

\* Only this loop stores alerts, so nothing that matters happens between its check
\* and its write.  Every alert has an id of its own; copy is the event it came with.
PassAlert(a) ==
  /\ NextAlert(a)
  /\ IF Suppressed(a)
     THEN loop' = Passed(a, loop.sent) /\ UNCHANGED raised
     ELSE /\ loop' = Passed(a, loop.sent + 1)
          /\ raised' = raised \cup
               {[alert |-> a, copy |-> received, status |-> "Active"]}
  /\ UNCHANGED <<now, received, past>>

EndOfEvent ==
  /\ loop.at = "send" /\ loop.found = {} /\ loop' = Idle
  /\ UNCHANGED <<now, received, past, raised>>

-----------------------------------------------------------------------------
(* Other tasks, and time *)

AcknowledgeAlert(r) ==
  /\ r \in raised /\ r.status = "Active"
  /\ raised' = (raised \ {r}) \cup {[r EXCEPT !.status = "Investigating"]}
  /\ UNCHANGED <<now, received, past, loop>>

ResolveAlert(r) ==
  /\ r \in raised /\ raised' = raised \ {r}
  /\ UNCHANGED <<now, received, past, loop>>

ClockTicks ==
  /\ now < MaxTime /\ now' = now + 1
  /\ UNCHANGED <<received, past, loop, raised>>

MonitorNext ==
  \/ \E s \in Sources, k \in AlertTypes : ReceiveEvent(s, k)
  \/ Analyze \/ EndOfEvent \/ ClockTicks
  \/ \E a \in loop.found : PassAlert(a)
  \/ \E r \in raised : AcknowledgeAlert(r) \/ ResolveAlert(r)

MonitorSpec == MonitorInit /\ [][MonitorNext]_MonitorVars

-----------------------------------------------------------------------------
(* Properties *)

\* Although every event looks at the whole history again, finds several sources at
\* once, and alerts are acknowledged and resolved meanwhile: two alerts of one type
\* that are both active came alert_cooldown apart, and one event raises no more than
\* max_alerts_per_minute, or one if that is 0.
AlertsSpaced ==
  /\ \A q, r \in raised :
       /\ q # r /\ q.status = "Active" /\ r.status = "Active"
       /\ q.alert.type = r.alert.type /\ q.alert.time <= r.alert.time
       => r.alert.time - q.alert.time >= Cooldown
  /\ \A n \in 1..MaxReceived : Cardinality({r \in raised : r.copy = n}) <= AtMost
=============================================================================
