--------------------------- MODULE SyncCoordinator ---------------------------
(* The syncs of one cluster member (sync/coordinator.rs) and the force-sync   *)
(* flag they keep in the configuration (config/mod.rs).  A sync is a periodic  *)
(* one of the sync checker or a forced one of the command line.  It asks the    *)
(* peers that ClusterTransport's peer table calls healthy, and keeps only how  *)
(* many they are.  A forced sync runs inside a request to the daemon, which the *)
(* socket drops after 30 s at whatever await it has come to.                   *)
(* perform_merge asks for pending_syncs' read guard while its caller keeps the *)
(* write guard, so the task that receives the last answer waits for itself:    *)
(* `stuck' names its sync, and nobody else gets the guard after it.            *)
EXTENDS Integers, FiniteSets

CONSTANTS SyncPeers,   \* those that send: an answer comes under the address
                       \* of its connection
          Periodic,    \* request ids the sync checker may use
          Forced       \* request ids forced syncs may use

ASSUME SyncAssumption == /\ Periodic \cap Forced = {}
                         /\ IsFiniteSet(SyncPeers)

Syncs == Periodic \cup Forced

VARIABLES forcing,     \* force_sync_state.sync_in_progress
          pending,     \* pending_syncs: total_peers, how many responded_peers
                       \* there are, and whose peer_configs are kept
          task,        \* the task that runs each sync
          stuck,       \* the sync whose last answer waits for its own guard
          saved,       \* the flag in mounts.toml
          adrift,      \* of the properties only: the flag comes from the file,
                       \* or the request of its last forced sync was dropped
          dropped,     \* of the properties only: the forced syncs dropped
                       \* between their record and their timer
          repeated     \* of the properties only: the outstanding syncs that
                       \* somebody answered twice

SyncVars == <<forcing, pending, task, stuck, saved, adrift, dropped, repeated>>

NoSync == [total |-> 0, answers |-> 0, from |-> {}]
PeerCount == Cardinality(SyncPeers)
PendingSyncs == [total: 0..PeerCount, answers: 0..PeerCount, from: SUBSET SyncPeers]

SyncTypeOK ==
  /\ forcing \in BOOLEAN
  /\ pending \in [Syncs -> PendingSyncs]
  /\ task \in [Syncs -> {"none", "begun", "sending", "timer"}]
  /\ stuck \in SUBSET Syncs
  /\ saved \in BOOLEAN /\ adrift \in BOOLEAN
  /\ dropped \subseteq Forced /\ repeated \subseteq Syncs

SyncInit ==
  /\ forcing = FALSE
  /\ pending = [r \in Syncs |-> NoSync]
  /\ task = [r \in Syncs |-> "none"]
  /\ stuck = {}
  /\ saved = FALSE /\ adrift = FALSE
  /\ dropped = {} /\ repeated = {}

-----------------------------------------------------------------------------
(* Periodic syncs: check_and_initiate_sync *)

Outstanding(r) == pending[r] # NoSync
GuardFree == stuck = {}

\* Only once nobody is in flight under this id may it be taken again: the code
\* makes every id from the nanoseconds of the clock.
Begin(r) ==
  /\ r \in Periodic /\ task[r] = "none" /\ ~Outstanding(r)
  /\ GuardFree
  /\ \E healthy \in 1..PeerCount :
       pending' = [pending EXCEPT ![r] = [NoSync EXCEPT !.total = healthy]]
  /\ task' = [task EXCEPT ![r] = "sending"]
  /\ UNCHANGED <<forcing, stuck, saved, adrift, dropped, repeated>>

\* Faulty: the timer is not spawned.
SendWithoutTimer(r) ==
  /\ task[r] = "sending" /\ task' = [task EXCEPT ![r] = "none"]
  /\ UNCHANGED <<forcing, pending, stuck, saved, adrift, dropped, repeated>>

\* The requests go out one after another, then the timer is spawned.  A request
\* that fails is only logged: its peer stays in total_peers and never answers.
SendRequests(r) ==
  /\ task[r] = "sending" /\ task' = [task EXCEPT ![r] = "timer"]
  /\ UNCHANGED <<forcing, pending, stuck, saved, adrift, dropped, repeated>>

\* Faulty: the timer of a forced sync leaves the flag alone.
TimerKeepsFlag(r) ==
  /\ task[r] = "timer" /\ GuardFree
  /\ pending' = [pending EXCEPT ![r] = NoSync]
  /\ task' = [task EXCEPT ![r] = "none"]
  /\ UNCHANGED <<forcing, stuck, saved, adrift, dropped, repeated>>

\* After 60 s, or 120 s for a forced sync.  Only the timer that finds its sync
\* outstanding ends the forced sync; fail_force_sync refuses when none runs.
TimerFires(r) ==
  /\ task[r] = "timer" /\ GuardFree
  /\ pending' = [pending EXCEPT ![r] = NoSync]
  /\ forcing' = (forcing /\ ~(r \in Forced /\ Outstanding(r)))
  /\ task' = [task EXCEPT ![r] = "none"]
  /\ adrift' = (adrift /\ forcing')
  /\ repeated' = repeated \ {r}
  /\ UNCHANGED <<stuck, saved, dropped>>

-----------------------------------------------------------------------------
(* Forced syncs: force_sync, initiate_force_sync and fail_force_sync *)

\* Nothing asks whether a forced sync is running already.
ForceBegin(r) ==
  /\ r \in Forced /\ task[r] = "none" /\ ~Outstanding(r)
  /\ forcing' = TRUE /\ adrift' = FALSE
  /\ task' = [task EXCEPT ![r] = "begun"]
  /\ UNCHANGED <<pending, stuck, saved, dropped, repeated>>

ForceNoPeers(r) ==
  /\ task[r] = "begun"
  /\ forcing' = FALSE /\ adrift' = FALSE
  /\ task' = [task EXCEPT ![r] = "none"]
  /\ UNCHANGED <<pending, stuck, saved, dropped, repeated>>

ForceStart(r) ==
  /\ task[r] = "begun" /\ GuardFree
  /\ \E healthy \in 1..PeerCount :
       pending' = [pending EXCEPT ![r] = [NoSync EXCEPT !.total = healthy]]
  /\ task' = [task EXCEPT ![r] = "sending"]
  /\ UNCHANGED <<forcing, stuck, saved, adrift, dropped, repeated>>

\* The socket drops the request that forces the sync, while it waits for a guard
\* or a peer.  The flag and the record stay as they are; the timer, once spawned,
\* is no longer part of the request.
DropForced(r) ==
  /\ r \in Forced /\ task[r] \in {"begun", "sending"}
  /\ task' = [task EXCEPT ![r] = "none"]
  /\ dropped' = IF task[r] = "sending" THEN dropped \cup {r} ELSE dropped
  /\ adrift' = (forcing /\ (adrift \/ \A q \in Forced : task'[q] = "none"))
  /\ UNCHANGED <<forcing, pending, stuck, saved, repeated>>

-----------------------------------------------------------------------------
(* handle_sync_message *)

\* An answer counts while its sync is outstanding, whoever sends it and however
\* often; its configuration takes the place of the sender's earlier one.  The one
\* that completes the number starts perform_merge, which never gets the guard its
\* caller holds.  An answer to a sync that is over is only logged.
ReceiveResponse(p, r) ==
  /\ GuardFree /\ Outstanding(r)
  /\ pending' = [pending EXCEPT ![r].answers = @ + 1, ![r].from = @ \cup {p}]
  /\ stuck' = IF pending'[r].answers = pending[r].total THEN {r} ELSE {}
  /\ repeated' = IF p \in pending[r].from THEN repeated \cup {r} ELSE repeated
  /\ UNCHANGED <<forcing, task, saved, adrift, dropped>>

\* handle_config_update replaces the whole configuration.  A sender broadcasts
\* its configuration after a merge, whose force_sync_state is the default.
ConfigReplaced ==
  /\ forcing' = FALSE /\ adrift' = FALSE
  /\ UNCHANGED <<pending, task, stuck, saved, dropped, repeated>>

-----------------------------------------------------------------------------
(* The configuration file *)

\* Any request that saves the configuration saves the flag as it stands.
SaveConfig ==
  /\ saved' = forcing
  /\ UNCHANGED <<forcing, pending, task, stuck, adrift, dropped, repeated>>

\* A new process loads the flag and knows nothing of the syncs.
Restart ==
  /\ forcing' = saved /\ adrift' = saved
  /\ pending' = [r \in Syncs |-> NoSync]
  /\ task' = [r \in Syncs |-> "none"]
  /\ stuck' = {} /\ dropped' = {} /\ repeated' = {}
  /\ UNCHANGED saved

-----------------------------------------------------------------------------
SyncTask(r) ==
  \/ SendRequests(r) \/ TimerFires(r)
  \/ ForceNoPeers(r) \/ ForceStart(r)

SyncNext ==
  \/ \E r \in Syncs : \/ Begin(r) \/ ForceBegin(r) \/ SyncTask(r) \/ DropForced(r)
                      \/ \E p \in SyncPeers : ReceiveResponse(p, r)
  \/ ConfigReplaced \/ SaveConfig \/ Restart

\* The runtime goes on with every spawned task whose await is ready.
SyncFairness == \A r \in Syncs : WF_SyncVars(SyncTask(r))

SyncSpec == SyncInit /\ [][SyncNext]_SyncVars /\ SyncFairness

-----------------------------------------------------------------------------
(* Properties *)

\* While sync_in_progress is set, some forced sync is still on its way and will
\* reach the code that clears it, whatever other forced syncs, timers and
\* configuration updates did meanwhile.  It stays up without an owner, and the
\* command line goes on reporting a running sync, in two cases only: an earlier
\* process saved it, or the request of the last forced sync was dropped.
ForceFlagHasOwner ==
  forcing => adrift \/ \E r \in Forced : task[r] # "none"

\* Nor is a sync left in pending_syncs without the task that will come back to
\* remove it, but for a forced one dropped before its timer was spawned.
SyncsHaveOwners ==
  /\ ForceFlagHasOwner
  /\ \A r \in Syncs : Outstanding(r) => r \in dropped \/ task[r] # "none"

\* The merge starts when, and only when, as many answers came as peers were
\* asked.  It then has one configuration from each of as many senders, unless one
\* of them answered this sync twice: nobody looks whether a sender was asked.
MergeHasEnoughAnswers ==
  \A r \in Syncs :
    /\ Outstanding(r) => (r \in stuck <=> pending[r].answers = pending[r].total)
    /\ r \in stuck => \/ r \in repeated
                      \/ Cardinality(pending[r].from) = pending[r].total

\* Both: whatever syncs, answers, timers, dropped requests and restarts overlap.
SyncsAreWhole == SyncsHaveOwners /\ MergeHasEnoughAnswers

\* Every sync ends, by its merge or by its timer.  (It does not: see the run.)
SyncEnds == \A r \in Syncs : Outstanding(r) ~> ~Outstanding(r)

\* What does hold: a sync ends unless some sync's last answer came in, whose
\* handler then keeps pending_syncs from everyone, or its request was dropped
\* before there was a timer.
SyncEndsUnlessMerging ==
  \A r \in Syncs : Outstanding(r) ~> (~Outstanding(r) \/ stuck # {} \/ r \in dropped)
=============================================================================
