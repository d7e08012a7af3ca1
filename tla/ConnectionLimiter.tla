------------------------- MODULE ConnectionLimiter -------------------------
(***************************************************************************)
(* The connection limiter of socket/mod.rs: the accept loop, which admits  *)
(* or refuses one connection after another, the permits it hands out, the  *)
(* task each permit spawns when it is dropped, and the cleanup task.       *)
(*                                                                         *)
(* They share a semaphore, a map of clients and a metrics record, the last *)
(* two each behind a mutex.  One action is the code between two awaits.  A *)
(* task that holds one mutex while it waits for the other stands at one of *)
(* the points "refuse", "settle" and "sum"; nowhere else is a mutex held   *)
(* over an await, so who holds which follows from where the tasks stand.   *)
(*                                                                         *)
(* Time passes in ticks and is kept as ages, each up to the last value     *)
(* that makes a difference.                                                *)
(***************************************************************************)
EXTENDS Naturals, Sequences, FiniteSets

CONSTANTS
    Peers,           \* the client ids (uid-<n>)
    Conns,           \* bound: how many connections exist at once, in any state
    MaxConnections, PerClientMax,         \* ConnectionLimits
    RateMax, RateWindow, ConnTimeout, IdleTimeout  \* ConnectionLimits, in ticks

ASSUME FiniteInstance == IsFiniteSet(Peers) /\ IsFiniteSet(Conns)

\* The defaults are 30 and 60 seconds against 300.
ASSUME LimitsInOrder ==
    /\ ConnTimeout \in Nat /\ RateWindow \in Nat /\ IdleTimeout \in Nat
    /\ ConnTimeout < IdleTimeout /\ RateWindow <= IdleTimeout
    /\ MaxConnections \in Nat /\ PerClientMax \in Nat /\ RateMax \in Nat

VARIABLES
    known,     \* the clients in client_connections
    entry,     \* what client_connections says of each, NewEntry of the others
    permits,   \* free permits of global_semaphore
    active,    \* metrics.active_connections
    acc,       \* the accept loop: where it stands, and for which client
    conn,      \* the connections: "open" while handled, then the task that
               \* releases it ("release", "settle")
    cleaner,   \* the cleanup task
    accepted   \* of the properties only: ages of the admissions in the window

vars == <<known, entry, permits, active, acc, conn, cleaner, accepted>>

Entry == [active : Nat, stamps : Seq(0..RateWindow), idle : 0..(IdleTimeout + 1)]
NewEntry == [active |-> 0, stamps |-> <<>>, idle |-> 0]

At(point) == {k \in Conns : conn[k].at = point}

ClientsFree == acc.at # "refuse" /\ At("settle") = {}
MetricsFree == cleaner # "sum"

-----------------------------------------------------------------------------
(* SocketServer::run and acquire_connection                                 *)

\* Faulty: nobody looks whether a permit is free.
AcceptUnchecked(p) ==
    /\ acc.at = "accept"
    /\ At("free") # {}
    /\ permits' = permits - 1
    /\ acc' = [at |-> "check", peer |-> p]
    /\ UNCHANGED <<known, entry, active, conn, cleaner, accepted>>

Accept(p) ==
    /\ acc.at = "accept"
    /\ At("free") # {}
    /\ \/ permits > 0 /\ permits' = permits - 1 /\ acc' = [at |-> "check", peer |-> p]
       \/ permits = 0 /\ acc' = [at |-> "full", peer |-> p] /\ UNCHANGED permits
    /\ UNCHANGED <<known, entry, active, conn, cleaner, accepted>>

RateLimited(e) == Len(e.stamps) >= RateMax
Refused(e) == RateLimited(e) \/ e.active >= PerClientMax

Record(e) == [active |-> e.active + 1, stamps |-> Append(e.stamps, 0), idle |-> 0]

\* Faulty: a refused connection keeps its permit.
CheckKeepsPermit ==
    /\ acc.at = "check" /\ ClientsFree
    /\ known' = known \cup {acc.peer}
    /\ IF Refused(entry[acc.peer])
       THEN /\ acc' = [acc EXCEPT !.at = "refuse"]
            /\ UNCHANGED <<entry, accepted>>
       ELSE /\ entry' = [entry EXCEPT ![acc.peer] = Record(@)]
            /\ acc' = [acc EXCEPT !.at = "count"]
            /\ accepted' = [accepted EXCEPT ![acc.peer] = Append(@, 0)]
    /\ UNCHANGED <<permits, active, conn, cleaner>>

\* With the clients' mutex: a refused connection gives its permit back at once but
\* keeps the mutex until it is counted.
Check ==
    /\ acc.at = "check" /\ ClientsFree
    /\ known' = known \cup {acc.peer}
    /\ IF Refused(entry[acc.peer])
       THEN /\ permits' = permits + 1
            /\ acc' = [acc EXCEPT !.at = "refuse"]
            /\ UNCHANGED <<entry, accepted>>
       ELSE /\ entry' = [entry EXCEPT ![acc.peer] = Record(@)]
            /\ acc' = [acc EXCEPT !.at = "count"]
            /\ accepted' = [accepted EXCEPT ![acc.peer] = Append(@, 0)]
            /\ UNCHANGED permits
    /\ UNCHANGED <<active, conn, cleaner>>

\* increment_rejected
CountRefused ==
    /\ acc.at \in {"full", "refuse"} /\ MetricsFree
    /\ acc' = [acc EXCEPT !.at = "accept"]
    /\ UNCHANGED <<known, entry, permits, active, conn, cleaner, accepted>>

\* increment_active, and the task that handles the connection
CountActive ==
    /\ acc.at = "count" /\ MetricsFree
    /\ active' = active + 1
    /\ \E k \in At("free") :
           conn' = [conn EXCEPT ![k] = [at |-> "open", peer |-> acc.peer, age |-> 0]]
    /\ acc' = [acc EXCEPT !.at = "accept"]
    /\ UNCHANGED <<known, entry, permits, cleaner, accepted>>

-----------------------------------------------------------------------------
(* Drop of a ConnectionPermit and release_client_connection                 *)

\* The connection is served, fails, or is dropped after connection_timeout: the
\* semaphore's permit is free at once, the rest is left to a task of its own.
Close(k) ==
    /\ conn[k].at = "open"
    /\ conn' = [conn EXCEPT ![k].at = "release"]
    /\ permits' = permits + 1
    /\ UNCHANGED <<known, entry, active, acc, cleaner, accepted>>

Removed(e) == [active |-> IF e.active > 0 THEN e.active - 1 ELSE 0,
               stamps |-> e.stamps, idle |-> 0]

Release(k) ==
    /\ conn[k].at = "release" /\ ClientsFree
    /\ LET p == conn[k].peer
       IN  entry' = [entry EXCEPT ![p] = IF p \in known THEN Removed(@) ELSE @]
    /\ conn' = [conn EXCEPT ![k].at = "settle"]
    /\ UNCHANGED <<known, permits, active, acc, cleaner, accepted>>

\* Faulty: the metrics are left to the cleanup task.
SettleUncounted(k) ==
    /\ conn[k].at = "settle" /\ MetricsFree
    /\ conn' = [conn EXCEPT ![k].at = "free"]
    /\ UNCHANGED <<known, entry, permits, active, acc, cleaner, accepted>>

\* decrement_active, still with the clients' mutex
Settle(k) ==
    /\ conn[k].at = "settle" /\ MetricsFree
    /\ active' = IF active > 0 THEN active - 1 ELSE 0
    /\ conn' = [conn EXCEPT ![k].at = "free"]
    /\ UNCHANGED <<known, entry, permits, acc, cleaner, accepted>>

-----------------------------------------------------------------------------
(* start_cleanup_task                                                       *)

Wake ==
    /\ cleaner = "sleep"
    /\ cleaner' = "forget"
    /\ UNCHANGED <<known, entry, permits, active, acc, conn, accepted>>

Keep(peers) ==
    /\ known' = peers
    /\ entry' = [p \in Peers |-> IF p \in peers THEN entry[p] ELSE NewEntry]

\* Faulty: clients are forgotten as soon as a connection's time would be over.
ForgetEarly ==
    /\ cleaner = "forget" /\ ClientsFree
    /\ Keep({p \in known : entry[p].idle < ConnTimeout})
    /\ cleaner' = "measure"
    /\ UNCHANGED <<permits, active, acc, conn, accepted>>

\* Idle clients are forgotten, whether or not they have connections.
Forget ==
    /\ cleaner = "forget" /\ ClientsFree
    /\ Keep({p \in known : entry[p].idle <= IdleTimeout})
    /\ cleaner' = "measure"
    /\ UNCHANGED <<permits, active, acc, conn, accepted>>

Measure ==
    /\ cleaner = "measure"
    /\ cleaner' = "sum"
    /\ UNCHANGED <<known, entry, permits, active, acc, conn, accepted>>

\* The sum of the clients' counts: as many pairs as there are connections counted.
Counted == Cardinality(UNION {{p} \X (1..entry[p].active) : p \in known})

\* With the metrics' mutex.
SumUp ==
    /\ cleaner = "sum" /\ ClientsFree
    /\ active' = Counted
    /\ cleaner' = "sleep"
    /\ UNCHANGED <<known, entry, permits, acc, conn, accepted>>

-----------------------------------------------------------------------------
(* Time.  A tick is long against the steps above: it passes only while the   *)
(* tasks sleep or serve, and no connection outlives connection_timeout.      *)

Quiet == acc.at = "accept" /\ cleaner = "sleep" /\ At("release") \cup At("settle") = {}

\* retain drops the timestamps the window has passed, which are the first: they are
\* in the order of their connections.  The code does so at the next check.
Expired(stamps) == {i \in DOMAIN stamps : stamps[i] >= RateWindow}
Older(stamps) ==
    LET n == Cardinality(Expired(stamps))
    IN  [i \in 1..(Len(stamps) - n) |-> stamps[n + i] + 1]

Aged(e) == [active |-> e.active, stamps |-> Older(e.stamps),
            idle |-> IF e.idle > IdleTimeout THEN e.idle ELSE e.idle + 1]

Tick ==
    /\ Quiet
    /\ \A k \in At("open") : conn[k].age < ConnTimeout
    /\ conn' = [k \in Conns |-> IF conn[k].at = "open" THEN [conn[k] EXCEPT !.age = @ + 1]
                                                       ELSE conn[k]]
    /\ entry' = [p \in Peers |-> IF p \in known THEN Aged(entry[p]) ELSE entry[p]]
    /\ accepted' = [p \in Peers |-> Older(accepted[p])]
    /\ UNCHANGED <<known, permits, active, acc, cleaner>>

-----------------------------------------------------------------------------
Init ==
    /\ known = {}
    /\ entry = [p \in Peers |-> NewEntry]
    /\ permits = MaxConnections
    /\ active = 0
    /\ acc \in [at : {"accept"}, peer : Peers]
    /\ conn \in [Conns -> [at : {"free"}, peer : Peers, age : {0}]]
    /\ cleaner = "sleep"
    /\ accepted = [p \in Peers |-> <<>>]

AcceptLoop == Check \/ CountRefused \/ CountActive
Task(k) == Release(k) \/ Settle(k)
Cleaning == Forget \/ Measure \/ SumUp

Next ==
    \/ \E p \in Peers : Accept(p)
    \/ AcceptLoop
    \/ \E k \in Conns : Close(k) \/ Task(k)
    \/ Wake \/ Cleaning \/ Tick

Spec == Init /\ [][Next]_vars

\* Every task that can go on does, and tokio's mutexes are fair: one that waits is
\* granted if it is free again and again.
FairSpec ==
    /\ Spec
    /\ SF_vars(AcceptLoop) /\ SF_vars(Cleaning) /\ WF_vars(Wake)
    /\ \A k \in Conns : SF_vars(Task(k)) /\ WF_vars(Close(k))

-----------------------------------------------------------------------------
\* Every variable has its type.
TypeOK ==
    /\ known \subseteq Peers
    /\ entry \in [Peers -> Entry]
    /\ permits \in 0..MaxConnections
    /\ active \in Nat
    /\ acc \in [at : {"accept", "check", "full", "refuse", "count"}, peer : Peers]
    /\ conn \in [Conns -> [at : {"free", "open", "release", "settle"}, peer : Peers,
                           age : 0..ConnTimeout]]
    /\ cleaner \in {"sleep", "forget", "measure", "sum"}
    /\ accepted \in [Peers -> Seq(0..RateWindow)]

\* The connections admitted and not yet dropped, of all clients and of one.
Admitting == IF acc.at = "count" THEN 1 ELSE 0
AdmittedOf(p) == Cardinality({k \in At("open") : conn[k].peer = p})
                 + IF acc.at = "count" /\ acc.peer = p THEN 1 ELSE 0

\* Each permit is free, with a connection, or with the connection being checked: no
\* refusal, error or timeout loses one or frees one twice.
NoPermitLost ==
    permits + Cardinality(At("open")) + Admitting + (IF acc.at = "check" THEN 1 ELSE 0)
        = MaxConnections

\* No client ever has more than max_connections_per_client connections, although
\* its count is released later than the connection ends and the cleanup task
\* forgets clients without looking at their count.
PerClientBounded == \A p \in Peers : AdmittedOf(p) <= PerClientMax

\* No client is admitted more than rate_limit_max times within a window, although
\* the cleanup task forgets its timestamps with it.
RateBounded == \A p \in Peers : Len(accepted[p]) <= RateMax

\* Both limits on one client hold (socket/mod.rs:180-199, 228-236).
ClientsBounded == PerClientBounded /\ RateBounded

\* While nobody is inside the clients' mutex the metric is off by one at most: the
\* cleanup task may count a connection that the accept loop counts once more.
MetricsClose == ClientsFree => active <= Counted + 1 /\ Counted <= active + 1

\* Claimed by SPEC.md: the server continues to run.  Not so when the cleanup task,
\* with the metrics, waits for the clients, and a release, with the clients, for
\* the metrics.
ServerGoesOn == acc.at # "accept" ~> acc.at = "accept"
=============================================================================
