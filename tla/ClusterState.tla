---------------------------- MODULE ClusterState ----------------------------
(* The peer table of a cluster member (cluster/mod.rs), the messages that touch *)
(* it (handle_sync_message) and the configuration version that updates raise    *)
(* (handle_config_update, which compares under one guard and applies under      *)
(* another).  The peers of the configuration grow by joins: the command line    *)
(* pushes the inviting peer and so does join_cluster.  Time is what matters of  *)
(* it: a peer was seen of late or not, the last request came of late or not.    *)
EXTENDS Integers, FiniteSets

CONSTANTS StatePeers,  \* peer ids
          Appliers,    \* tasks that handle a ConfigUpdate
          MaxVersion,  \* bound: announced sync versions
          MaxEntries   \* bound: entries of one peer in the configuration

ASSUME StateAssumption == MaxVersion \in Nat /\ MaxEntries \in Nat \ {0}

VARIABLES table,       \* peers: status, and whether seen of late
          asked,       \* last_peer_request: never, or how long ago
          entries,     \* cluster.peers: how often each peer is listed
          version,     \* sync_metadata.sync_version
          applier,     \* what each update handler read and carries
          senders      \* of the properties only: peers that sent a message since
                       \* they were last put in the table

StateVars == <<table, asked, entries, version, applier, senders>>

Unknown == [status |-> "unknown", recent |-> FALSE]
Resting == [at |-> "idle", read |-> 0, carries |-> 0]
Statuses == {"Connected", "Disconnected", "Suspended", "Leaving"}

StateTypeOK ==
  /\ table \in [StatePeers -> {Unknown} \cup [status: Statuses, recent: BOOLEAN]]
  /\ asked \in {"never", "recent", "old"}
  /\ entries \in [StatePeers -> 0..MaxEntries]
  /\ version \in 0..MaxVersion
  /\ applier \in [Appliers -> [at: {"idle", "apply"}, read: 0..MaxVersion,
                               carries: 0..MaxVersion]]
  /\ senders \subseteq StatePeers

Known == {p \in StatePeers : table[p] # Unknown}

\* Daemon::start: ClusterState::initialize puts the configured peers in the
\* table.
StateInit ==
  /\ entries \in [StatePeers -> 0..1]
  /\ table = [p \in StatePeers |->
                IF entries[p] > 0 THEN [status |-> "Disconnected", recent |-> FALSE]
                ELSE Unknown]
  /\ asked = "never" /\ version = 0
  /\ applier = [u \in Appliers |-> Resting]
  /\ senders = {}

-----------------------------------------------------------------------------
(* The table *)

\* update_peer and update_peer_status, by whoever manages the peers.
UpdatePeer(p, s) ==
  /\ table' = [table EXCEPT ![p] = [status |-> s, recent |-> TRUE]]
  /\ senders' = senders \ {p}
  /\ UNCHANGED <<asked, entries, version, applier>>

\* remove_peer, and remove_cluster_peer, which takes the first entry only.
RemovePeer(p) ==
  /\ p \in Known
  /\ table' = [table EXCEPT ![p] = Unknown]
  /\ entries' = [entries EXCEPT ![p] = IF @ > 0 THEN @ - 1 ELSE 0]
  /\ senders' = senders \ {p}
  /\ UNCHANGED <<asked, version, applier>>

\* join_cluster after handle_join: the command line has pushed the inviting peer,
\* update_peer puts it in the table, and join_cluster pushes it again.
Join(p) ==
  /\ entries[p] + 2 <= MaxEntries
  /\ entries' = [entries EXCEPT ![p] = @ + 2]
  /\ table' = [table EXCEPT ![p] = [status |-> "Disconnected", recent |-> TRUE]]
  /\ senders' = senders \ {p}
  /\ UNCHANGED <<asked, version, applier>>

\* add_cluster_peer: only a peer that is not listed.
AddClusterPeer(p) ==
  /\ entries[p] = 0 /\ MaxEntries > 0
  /\ entries' = [entries EXCEPT ![p] = 1]
  /\ UNCHANGED <<table, asked, version, applier, senders>>

\* Faulty: a connected peer must have been seen of late, too.
HealthyRecent == {p \in Known : table[p].recent}

\* get_healthy_peers
Healthy == {p \in Known : table[p].status = "Connected" \/ table[p].recent}

PeerAges(p) ==
  /\ table[p].recent
  /\ table' = [table EXCEPT ![p].recent = FALSE]
  /\ UNCHANGED <<asked, entries, version, applier, senders>>

RequestAges ==
  /\ asked = "recent" /\ asked' = "old"
  /\ UNCHANGED <<table, entries, version, applier, senders>>

-----------------------------------------------------------------------------
(* handle_sync_message: mark_peer_seen comes first.  The sender is named by the *)
(* address it connected from, so a peer may be seen under an unknown name.      *)

\* Faulty: a sender that is not in the table is entered.
MarkAnyoneSeen(p) ==
  /\ table' = [table EXCEPT ![p].recent = TRUE]
  /\ senders' = senders \cup ({p} \cap Known)

MarkPeerSeen(p) ==
  /\ table' = IF p \in Known
              THEN [table EXCEPT ![p] =
                      [status |-> IF @.status = "Disconnected" THEN "Connected"
                                  ELSE @.status,
                       recent |-> TRUE]]
              ELSE table
  /\ senders' = senders \cup ({p} \cap Known)

\* handle_sync_request answers from a copy of the configuration.
ReceiveRequest(p) ==
  /\ MarkPeerSeen(p) /\ asked' = "recent"
  /\ UNCHANGED <<entries, version, applier>>

\* Heartbeat, and SyncComplete, whose version is only compared and logged.
ReceiveNotice(p) ==
  /\ MarkPeerSeen(p)
  /\ UNCHANGED <<asked, entries, version, applier>>

\* Faulty: any other version is taken.
ReceiveAnyUpdate(u, p, v) ==
  /\ applier[u] = Resting
  /\ MarkPeerSeen(p)
  /\ applier' = IF v # version
                THEN [applier EXCEPT ![u] = [at |-> "apply", read |-> version,
                                             carries |-> v]]
                ELSE applier
  /\ UNCHANGED <<asked, entries, version>>

ReceiveUpdate(u, p, v) ==
  /\ applier[u] = Resting
  /\ MarkPeerSeen(p)
  /\ applier' = IF v > version
                THEN [applier EXCEPT ![u] = [at |-> "apply", read |-> version,
                                             carries |-> v]]
                ELSE applier
  /\ UNCHANGED <<asked, entries, version>>

\* The update replaces the whole configuration: the peers are the sender's,
\* none after a merge, while the table keeps what it has.
ApplyUpdate(u) ==
  /\ applier[u].at = "apply"
  /\ version' = applier[u].carries
  /\ entries' = [p \in StatePeers |-> 0]
  /\ applier' = [applier EXCEPT ![u] = Resting]
  /\ UNCHANGED <<table, asked, senders>>

StateNext ==
  \/ \E p \in StatePeers :
       \/ \E s \in Statuses : UpdatePeer(p, s)
       \/ RemovePeer(p) \/ Join(p) \/ AddClusterPeer(p) \/ PeerAges(p)
       \/ ReceiveRequest(p) \/ ReceiveNotice(p)
       \/ \E u \in Appliers, v \in 0..MaxVersion : ReceiveUpdate(u, p, v)
  \/ RequestAges
  \/ \E u \in Appliers : ApplyUpdate(u)

StateSpec == StateInit /\ [][StateNext]_StateVars

-----------------------------------------------------------------------------
(* Properties *)

\* A member's sync version falls only when two updates overlapped: the one
\* applied last had compared itself with a version that was replaced meanwhile.
VersionFallsOnlyOnStaleRead ==
  [][version' < version =>
       \E u \in Appliers : applier[u].at = "apply" /\ applier[u].read < version]_StateVars

\* A peer that was in the table and wrote is asked at the next sync: it is healthy
\* however long it has been silent since, unless somebody suspended it or it leaves.
SpeakerStaysHealthy ==
  \A p \in senders :
    table[p].status \notin {"Suspended", "Leaving"} => p \in Healthy
=============================================================================
