-------------------------- MODULE IntrusionDetection --------------------------
(* The rules of security/intrusion_detection.rs.  process_event buffers an    *)
(* event, checks it against every rule under the rules' read guard and raises *)
(* an alert for each that matches; the response to an alert is awaited under  *)
(* that guard. A frequency rule counts the buffered events of the same type,  *)
(* whatever its pattern says; the other kinds of rule match by a text or      *)
(* never.  The loops of start() work on a copy of the engine that is empty    *)
(* for ever (clone), so they never analyse an event nor clean an alert up,    *)
(* and are not modelled.                                                      *)
EXTENDS Integers, FiniteSets, SequencesExt

CONSTANTS EventTypes,    \* types of events
          Rules,         \* ids of frequency rules
          MaxSeen,       \* bound: events processed
          RuleBuffer,    \* event_buffer_size
          Threshold      \* of a rule: this many events of a type within its window

ASSUME IntrusionAssumption ==
  /\ MaxSeen \in Nat /\ RuleBuffer \in Nat /\ Threshold \in Nat \ {0}

VARIABLES arrived,       \* the types of the events so far, in order of arrival
          recent,        \* event_buffer: the events in it, oldest first
          stale,         \* events older than the rules' time window
          listed,        \* rules
          alerts,        \* the events with an alert, and its status
          handling       \* where process_event stands for each event

IntrusionVars == <<arrived, recent, stale, listed, alerts, handling>>

Seen == DOMAIN arrived
HoldsRules == {"check", "alert", "respond"}
\* An alert under investigation counts as active.
AlertStatus == {"Active", "Closed"}

IntrusionTypeOK ==
  /\ Seen \subseteq 1..MaxSeen /\ \A e \in Seen : arrived[e] \in EventTypes
  /\ ToSet(recent) \subseteq Seen /\ Len(recent) <= RuleBuffer
  /\ stale \subseteq Seen /\ listed \subseteq Rules
  /\ DOMAIN alerts \subseteq Seen
  /\ \A e \in DOMAIN alerts : alerts[e] \in AlertStatus
  \* todo: the rules this event is still to be checked against; ruled: it has been
  \* checked against one
  /\ DOMAIN handling = Seen
  /\ \A e \in Seen : handling[e] \in [at: HoldsRules \cup {"enter", "done"},
                                        todo: SUBSET Rules, ruled: BOOLEAN]

IntrusionInit ==
  /\ arrived = <<>> /\ recent = <<>> /\ stale = {} /\ listed = Rules
  /\ alerts = <<>> /\ handling = <<>>

RulesFree == \A e \in Seen : handling[e].at \notin HoldsRules
Buffered == ToSet(recent)

-----------------------------------------------------------------------------
(* process_event *)

\* Faulty: the oldest event stays.
TakeEventUntrimmed(k) ==
  /\ Len(arrived) < MaxSeen
  /\ arrived' = Append(arrived, k)
  /\ recent' = Append(recent, Len(arrived) + 1)
  /\ handling' = Append(handling, [at |-> "enter", todo |-> {}, ruled |-> FALSE])
  /\ UNCHANGED <<stale, listed, alerts>>

TakeEvent(k) ==
  /\ Len(arrived) < MaxSeen
  /\ arrived' = Append(arrived, k)
  /\ LET longer == Append(recent, Len(arrived) + 1)
     IN recent' = IF Len(longer) > RuleBuffer THEN Tail(longer) ELSE longer
  /\ handling' = Append(handling, [at |-> "enter", todo |-> {}, ruled |-> FALSE])
  /\ UNCHANGED <<stale, listed, alerts>>

TakeRules(e) ==
  /\ handling[e].at = "enter"
  /\ handling' = [handling EXCEPT
       ![e] = [at |-> "check", todo |-> listed, ruled |-> @.ruled]]
  /\ UNCHANGED <<arrived, recent, stale, listed, alerts>>

\* check_frequency_rule
SameType(e) == {f \in Buffered : f \notin stale /\ arrived[f] = arrived[e]}

\* Faulty: the rules' patterns say "count > 10".
MatchesAbove(e) == Cardinality(SameType(e)) > Threshold

Matches(e) == Cardinality(SameType(e)) >= Threshold

CheckRule(e, r) ==
  /\ handling[e].at = "check" /\ r \in handling[e].todo
  /\ handling' = [handling EXCEPT
       ![e] = [at |-> IF Matches(e) THEN "alert" ELSE "check",
               todo |-> @.todo \ {r}, ruled |-> TRUE]]
  /\ UNCHANGED <<arrived, recent, stale, listed, alerts>>

\* create_alert; with an automatic response the task sleeps first.  A second rule
\* that matches gives the event a second alert, not told apart here.
StoreAlert(e) ==
  /\ handling[e].at = "alert"
  /\ alerts' = [f \in DOMAIN alerts \cup {e} |->
                  IF f = e THEN "Active" ELSE alerts[f]]
  /\ \E next \in {"check", "respond"} :
       handling' = [handling EXCEPT ![e].at = next]
  /\ UNCHANGED <<arrived, recent, stale, listed>>

Respond(e) ==
  /\ handling[e].at = "respond" /\ handling' = [handling EXCEPT ![e].at = "check"]
  /\ UNCHANGED <<arrived, recent, stale, listed, alerts>>

\* Users' patterns are kept for the analysis, which never sees them.
DropRules(e) ==
  /\ handling[e].at = "check" /\ handling[e].todo = {}
  /\ handling' = [handling EXCEPT ![e].at = "done"]
  /\ UNCHANGED <<arrived, recent, stale, listed, alerts>>

-----------------------------------------------------------------------------
(* add_rule, remove_rule, update_alert_status, and time *)

\* Both wait for every event that is being checked, responses included.
ChangeRules(r) ==
  /\ RulesFree
  /\ listed' = IF r \in listed THEN listed \ {r} ELSE listed \cup {r}
  /\ UNCHANGED <<arrived, recent, stale, alerts, handling>>

UpdateAlertStatus(e, status) ==
  /\ e \in DOMAIN alerts /\ alerts[e] # status
  /\ alerts' = [alerts EXCEPT ![e] = status]
  /\ UNCHANGED <<arrived, recent, stale, listed, handling>>

\* Seen carry their own timestamps, so any of them may leave the window next.
LeavesWindow(e) ==
  /\ e \notin stale /\ stale' = stale \cup {e}
  /\ UNCHANGED <<arrived, recent, listed, alerts, handling>>

IntrusionNext ==
  \/ \E k \in EventTypes : TakeEvent(k)
  \/ \E e \in Seen :
       \/ TakeRules(e) \/ StoreAlert(e) \/ Respond(e) \/ DropRules(e)
       \/ LeavesWindow(e)
       \/ \E r \in Rules : CheckRule(e, r)
       \/ \E status \in AlertStatus : UpdateAlertStatus(e, status)
  \/ \E r \in Rules : ChangeRules(r)

IntrusionSpec == IntrusionInit /\ [][IntrusionNext]_IntrusionVars

-----------------------------------------------------------------------------
(* Properties *)

\* However many events are handled at once, in whatever order they take the rules,
\* and however rules come and go: when nothing is under way and the buffer holds
\* Threshold events of one type that are inside the window and have been checked
\* against some rule, one of them has an alert.
BurstsAreSeen ==
  (\A e \in Seen : handling[e].at = "done") =>
    \A k \in EventTypes :
      LET burst == {e \in Buffered : /\ arrived[e] = k /\ e \notin stale
                                     /\ handling[e].ruled}
      IN Cardinality(burst) >= Threshold => burst \cap DOMAIN alerts # {}
=============================================================================
