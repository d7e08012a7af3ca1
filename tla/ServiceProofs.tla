---------------------------- MODULE ServiceProofs ----------------------------
(***************************************************************************)
(* Proofs about the components of MCServices, each for any number of       *)
(* tasks, and of what is checked of all of them together: the cluster's    *)
(* syncs, the state machine of a mount, the locks of a configuration, the  *)
(* circuit breaker of the retries, the health scheduler and the dependency *)
(* graph, the backups of credentials, and the audit log with its           *)
(* monitoring and the intrusion detection.                                 *)
(***************************************************************************)
EXTENDS MCServices, FunctionTheorems, FiniteSetTheorems, TLAPS

(* SyncCoordinator: owners of the flag and of the syncs, and the merge.      *)

\* A sync is outstanding exactly while its task has not come back to it, or it
\* was dropped.
TasksMatch ==
  \A r \in Syncs :
    /\ Outstanding(r) <=> r \in dropped \/ task[r] \in {"sending", "timer"}
    /\ r \in dropped => task[r] = "none"

\* Each sender has one configuration, and each answer counts unless it repeats one.
AnswersCounted ==
  \A r \in Syncs :
    /\ r \notin repeated => pending[r].answers = Cardinality(pending[r].from)
    /\ pending[r].answers <= pending[r].total
    /\ Outstanding(r) => pending[r].total > 0
    /\ r \in repeated => Outstanding(r)

SyncInv == /\ SyncTypeOK /\ TasksMatch /\ AnswersCounted
           /\ SyncsHaveOwners /\ MergeHasEnoughAnswers

LEMMA PeersCounted == PeerCount \in Nat /\ Cardinality({}) = 0
  BY SyncAssumption, FS_CardinalityType, FS_EmptySet DEF PeerCount

LEMMA SyncInitInv == SyncInit => SyncInv
<1> SUFFICES ASSUME SyncInit PROVE SyncInv
  OBVIOUS
<1>1. \A r \in Syncs : ~Outstanding(r) /\ pending[r] = NoSync /\ task[r] = "none"
  BY DEF SyncInit, Outstanding
<1>2. NoSync \in PendingSyncs
  BY PeersCounted DEF NoSync, PendingSyncs
<1>3. SyncTypeOK
  BY <1>2 DEF SyncInit, SyncTypeOK
<1>4. AnswersCounted
  BY <1>1, PeersCounted DEF SyncInit, AnswersCounted, NoSync
<1> QED
  BY <1>1, <1>3, <1>4
  DEF SyncInit, SyncInv, TasksMatch, SyncsHaveOwners, ForceFlagHasOwner,
      MergeHasEnoughAnswers

\* Beginning a sync with the peers that are healthy.
LEMMA SyncStarts ==
    ASSUME SyncInv, NEW r \in Syncs, GuardFree, ~Outstanding(r),
           \E healthy \in 1..PeerCount :
             pending' = [pending EXCEPT ![r] = [NoSync EXCEPT !.total = healthy]],
           task' = [task EXCEPT ![r] = "sending"],
           UNCHANGED <<forcing, stuck, saved, adrift, dropped, repeated>>,
           r \in Forced => task[r] = "begun"
    PROVE  SyncInv'
<1> USE DEF SyncInv
<1> PICK healthy \in 1..PeerCount :
      pending' = [pending EXCEPT ![r] = [NoSync EXCEPT !.total = healthy]]
  OBVIOUS
<1>1. /\ pending \in [Syncs -> PendingSyncs]
      /\ task \in [Syncs -> {"none", "begun", "sending", "timer"}]
  BY DEF SyncTypeOK
<1>2. /\ pending'[r] = [total |-> healthy, answers |-> 0, from |-> {}]
      /\ task'[r] = "sending"
      /\ \A q \in Syncs \ {r} : pending'[q] = pending[q] /\ task'[q] = task[q]
  BY <1>1 DEF NoSync
<1>0. /\ pending'[r] # NoSync /\ pending'[r].answers = 0 /\ pending'[r].total > 0
      /\ pending'[r].from = {} /\ pending'[r] \in PendingSyncs
      /\ r \notin dropped /\ r \notin repeated /\ stuck = {}
  <2>1. r \notin dropped /\ r \notin repeated /\ stuck = {}
    BY DEF TasksMatch, AnswersCounted, GuardFree
  <2>2. /\ pending'[r].total = healthy /\ pending'[r].answers = 0
        /\ pending'[r].from = {} /\ NoSync.total = 0 /\ healthy > 0
    BY <1>2, PeersCounted DEF NoSync
  <2>3. pending'[r] \in PendingSyncs
    BY <1>2, PeersCounted DEF PendingSyncs
  <2>4. healthy # 0
    BY <2>2, PeersCounted
  <2>5. pending'[r].total # NoSync.total
    BY <2>2, <2>4
  <2>6. pending'[r] # NoSync
    BY <2>5
  <2>7. pending'[r].total > 0
    BY <2>2
  <2> QED
    BY <2>1, <2>2, <2>3, <2>6, <2>7
<1>3. SyncTypeOK'
  BY <1>0, <1>1, <1>2 DEF SyncTypeOK
<1>4. TasksMatch' /\ AnswersCounted'
  <2>1. TasksMatch'
    BY <1>0, <1>2 DEF TasksMatch, Outstanding
  <2>2. AnswersCounted'
    BY <1>0, <1>2, PeersCounted DEF AnswersCounted, Outstanding
  <2> QED
    BY <2>1, <2>2
<1>5. MergeHasEnoughAnswers'
  <2>1. pending'[r].answers # pending'[r].total
    BY <1>0
  <2> QED
    BY <1>0, <1>2, <2>1 DEF MergeHasEnoughAnswers, Outstanding
<1>6. SyncsHaveOwners'
  <2>1. \A q \in Syncs : task[q] # "none" => task'[q] # "none"
    BY <1>2
  <2>2. ForceFlagHasOwner'
    BY <2>1 DEF ForceFlagHasOwner, SyncsHaveOwners, Syncs
  <2>3. \A q \in Syncs : Outstanding(q)' => q \in dropped' \/ task'[q] # "none"
    BY <1>4 DEF TasksMatch
  <2> QED
    BY <2>2, <2>3 DEF SyncsHaveOwners
<1> QED
  BY <1>3, <1>4, <1>5, <1>6

LEMMA TimerKeepsInv ==
    ASSUME SyncInv, NEW r \in Syncs, TimerFires(r)
    PROVE  SyncInv'
<1> USE DEF SyncInv
<1>1. /\ pending \in [Syncs -> PendingSyncs]
      /\ task \in [Syncs -> {"none", "begun", "sending", "timer"}]
      /\ forcing \in BOOLEAN /\ adrift \in BOOLEAN
  BY DEF SyncTypeOK
<1>2. /\ pending'[r] = NoSync /\ task'[r] = "none" /\ Outstanding(r)
      /\ r \notin dropped /\ dropped' = dropped /\ r \notin repeated'
      /\ stuck = {} /\ stuck' = {} /\ repeated' \subseteq repeated
      /\ \A q \in Syncs \ {r} : /\ pending'[q] = pending[q] /\ task'[q] = task[q]
                                /\ q \in repeated' <=> q \in repeated
  BY <1>1 DEF TimerFires, TasksMatch, GuardFree
<1>3. SyncTypeOK'
  <2>0. NoSync \in PendingSyncs
    BY PeersCounted DEF NoSync, PendingSyncs
  <2>1. /\ pending' \in [Syncs -> PendingSyncs]
        /\ task' \in [Syncs -> {"none", "begun", "sending", "timer"}]
    BY <1>1, <2>0 DEF TimerFires
  <2>2. forcing' \in BOOLEAN /\ adrift' \in BOOLEAN
    BY <1>1, Zenon DEF TimerFires
  <2> QED
    BY <2>1, <2>2, <1>2 DEF SyncTypeOK, TimerFires
<1>4. TasksMatch' /\ AnswersCounted'
  <2>1. TasksMatch'
    BY <1>2 DEF TasksMatch, Outstanding
  <2>2. NoSync.total = 0 /\ NoSync.answers = 0 /\ NoSync.from = {}
    BY DEF NoSync
  <2>3. /\ pending'[r].total = 0 /\ pending'[r].answers = 0
        /\ Cardinality(pending'[r].from) = 0 /\ ~Outstanding(r)'
    <3>1. pending'[r].from = {} /\ pending'[r].total = 0 /\ pending'[r].answers = 0
      BY <1>2, <2>2
    <3> QED
      BY <1>2, <3>1, PeersCounted DEF Outstanding
  <2>4. \A q \in Syncs \ {r} : /\ q \in repeated' <=> q \in repeated
                              /\ pending'[q] = pending[q]
    BY <1>2
  <2>5. AnswersCounted'
    <3>1. /\ r \notin repeated' /\ pending'[r].answers = Cardinality(pending'[r].from)
          /\ pending'[r].answers <= pending'[r].total
      BY <1>2, <2>3
    <3>2. ASSUME NEW q \in Syncs \ {r}
          PROVE  /\ q \notin repeated' => pending'[q].answers = Cardinality(pending'[q].from)
                 /\ pending'[q].answers <= pending'[q].total
                 /\ Outstanding(q)' => pending'[q].total > 0
                 /\ q \in repeated' => Outstanding(q)'
      <4>1. /\ q \notin repeated => pending[q].answers = Cardinality(pending[q].from)
            /\ pending[q].answers <= pending[q].total
            /\ Outstanding(q) => pending[q].total > 0
            /\ q \in repeated => Outstanding(q)
        BY DEF AnswersCounted
      <4>2. pending'[q] = pending[q] /\ (q \in repeated' <=> q \in repeated)
        BY <2>4
      <4> QED
        BY <4>1, <4>2 DEF Outstanding
    <3> QED
      BY <2>3, <3>1, <3>2 DEF AnswersCounted
  <2> QED
    BY <2>1, <2>5
<1>5. MergeHasEnoughAnswers'
  BY <1>2 DEF MergeHasEnoughAnswers, Outstanding
<1>6. ForceFlagHasOwner'
  <2> SUFFICES ASSUME forcing' PROVE adrift' \/ \E q \in Forced : task'[q] # "none"
    BY DEF ForceFlagHasOwner
  <2>1. forcing /\ r \notin Forced
    BY <1>2 DEF TimerFires
  <2>2. CASE adrift
    BY <2>1, <2>2 DEF TimerFires
  <2>3. CASE ~adrift
    <3>1. PICK q \in Forced : task[q] # "none"
      BY <2>1, <2>3 DEF SyncsHaveOwners, ForceFlagHasOwner
    <3> QED
      BY <1>2, <2>1, <3>1 DEF Syncs
  <2> QED
    BY <2>2, <2>3
<1>7. SyncsHaveOwners'
  BY <1>4, <1>6 DEF SyncsHaveOwners, TasksMatch
<1> QED
  BY <1>3, <1>4, <1>5, <1>7

LEMMA ResponseKeepsInv ==
    ASSUME SyncInv, NEW p \in SyncPeers, NEW r \in Syncs, ReceiveResponse(p, r)
    PROVE  SyncInv'
<1> USE DEF SyncInv
<1> DEFINE syncBefore == pending[r]
           syncAfter == pending'[r]
<1>1. /\ pending \in [Syncs -> PendingSyncs]
      /\ task \in [Syncs -> {"none", "begun", "sending", "timer"}]
  BY DEF SyncTypeOK
<1>2. /\ syncAfter = [total |-> syncBefore.total, answers |-> syncBefore.answers + 1,
                from |-> syncBefore.from \cup {p}]
      /\ stuck = {} /\ Outstanding(r) /\ task' = task /\ dropped' = dropped
      /\ \A q \in Syncs \ {r} : pending'[q] = pending[q]
      /\ stuck' = IF syncAfter.answers = syncBefore.total THEN {r} ELSE {}
      /\ repeated' = IF p \in syncBefore.from THEN repeated \cup {r} ELSE repeated
  BY <1>1 DEF ReceiveResponse, GuardFree, PendingSyncs
<1>3. /\ syncBefore.total \in Nat /\ syncBefore.total > 0 /\ syncBefore.answers < syncBefore.total
      /\ syncBefore.answers \in Nat /\ syncBefore.total <= PeerCount
      /\ syncBefore.from \in SUBSET SyncPeers /\ IsFiniteSet(syncBefore.from)
  <2>1. syncBefore \in PendingSyncs /\ PeerCount \in Nat
    BY <1>1, PeersCounted
  <2>2. syncBefore.total \in 0..PeerCount /\ syncBefore.answers \in 0..PeerCount
        /\ syncBefore.from \in SUBSET SyncPeers
    BY <2>1 DEF PendingSyncs
  <2>3. syncBefore.total > 0 /\ syncBefore.answers <= syncBefore.total
    BY <1>2 DEF AnswersCounted
  <2>4. syncBefore.answers # syncBefore.total
    BY <1>2 DEF MergeHasEnoughAnswers
  <2> QED
    BY <2>1, <2>2, <2>3, <2>4, SyncAssumption, FS_Subset
<1>4. /\ syncAfter \in PendingSyncs /\ syncAfter # NoSync /\ syncAfter.total = syncBefore.total
      /\ syncAfter.answers = syncBefore.answers + 1 /\ syncAfter.from = syncBefore.from \cup {p}
  <2>1. syncAfter.total = syncBefore.total /\ syncAfter.answers = syncBefore.answers + 1
        /\ syncAfter.from = syncBefore.from \cup {p}
    BY <1>2
  <2>2. syncAfter \in PendingSyncs
    BY <1>2, <1>3, PeersCounted DEF PendingSyncs
  <2>3. NoSync.total = 0
    BY DEF NoSync
  <2> QED
    BY <1>3, <2>1, <2>2, <2>3
<1>5. r \notin repeated' => syncAfter.answers = Cardinality(syncAfter.from)
  <2> SUFFICES ASSUME r \notin repeated' PROVE syncAfter.answers = Cardinality(syncAfter.from)
    OBVIOUS
  <2>1. p \notin syncBefore.from /\ r \notin repeated
    BY <1>2
  <2>2. Cardinality(syncBefore.from \cup {p}) = Cardinality(syncBefore.from) + 1
    BY <1>3, <2>1, FS_AddElement
  <2>3. syncBefore.answers = Cardinality(syncBefore.from)
    BY <2>1 DEF AnswersCounted
  <2> QED
    BY <1>4, <2>2, <2>3
<1>6. SyncTypeOK'
  <2>1. pending' \in [Syncs -> PendingSyncs]
    BY <1>1, <1>2, <1>4 DEF ReceiveResponse
  <2> QED
    BY <1>2, <2>1 DEF SyncTypeOK, ReceiveResponse
<1>7. TasksMatch' /\ AnswersCounted'
  <2>1. TasksMatch'
    BY <1>2, <1>4 DEF TasksMatch, Outstanding
  <2>2. syncAfter.answers <= syncAfter.total
    BY <1>3, <1>4
  <2>3. \A q \in Syncs \ {r} : q \in repeated' <=> q \in repeated
    BY <1>2
  <2>4. AnswersCounted'
    BY <1>2, <1>3, <1>4, <1>5, <2>2, <2>3 DEF AnswersCounted, Outstanding
  <2> QED
    BY <2>1, <2>4
<1>8. MergeHasEnoughAnswers'
  <2>1. ASSUME NEW q \in Syncs \ {r} PROVE Outstanding(q)' => pending'[q].answers # pending'[q].total
    BY <1>2 DEF MergeHasEnoughAnswers, Outstanding
  <2>2. \A q \in Syncs \ {r} : q \notin stuck'
    BY <1>2
  <2>3. r \in stuck' <=> syncAfter.answers = syncAfter.total
    BY <1>2, <1>4
  <2> QED
    BY <1>4, <1>5, <2>1, <2>2, <2>3 DEF MergeHasEnoughAnswers
<1>9. SyncsHaveOwners'
  BY <1>2, <1>7 DEF SyncsHaveOwners, ForceFlagHasOwner, TasksMatch, ReceiveResponse
<1> QED
  BY <1>6, <1>7, <1>8, <1>9

\* The steps that leave pending_syncs and its guard alone.
LEMMA FlagStep ==
    ASSUME SyncInv, UNCHANGED <<pending, stuck, dropped, repeated>>,
           \/ \E r \in Syncs : SendRequests(r) \/ ForceBegin(r) \/ ForceNoPeers(r)
           \/ ConfigReplaced \/ SaveConfig
    PROVE  SyncInv'
<1> USE DEF SyncInv
<1>1. /\ task \in [Syncs -> {"none", "begun", "sending", "timer"}]
      /\ forcing \in BOOLEAN /\ saved \in BOOLEAN /\ adrift \in BOOLEAN
  BY DEF SyncTypeOK
<1>2. /\ task' \in [Syncs -> {"none", "begun", "sending", "timer"}]
      /\ forcing' \in BOOLEAN /\ saved' \in BOOLEAN /\ adrift' \in BOOLEAN
  BY <1>1 DEF SendRequests, ForceBegin, ForceNoPeers, ConfigReplaced, SaveConfig
<1>3. /\ \A r \in Syncs : task'[r] \in {"sending", "timer"} <=> task[r] \in {"sending", "timer"}
      /\ \A r \in dropped : task'[r] = task[r]
  <2>0. \A q \in dropped : q \in Syncs /\ Outstanding(q) /\ task[q] = "none"
    BY DEF TasksMatch, SyncTypeOK, Syncs
  <2>1. ASSUME NEW r \in Syncs, SendRequests(r) \/ ForceBegin(r) \/ ForceNoPeers(r)
        PROVE  /\ \A q \in Syncs : task'[q] \in {"sending", "timer"} <=> task[q] \in {"sending", "timer"}
               /\ \A q \in dropped : task'[q] = task[q]
    BY <1>1, <2>0, <2>1 DEF SendRequests, ForceBegin, ForceNoPeers
  <2> QED
    BY <2>1 DEF ConfigReplaced, SaveConfig
<1>4. SyncTypeOK' /\ TasksMatch' /\ AnswersCounted' /\ MergeHasEnoughAnswers'
  BY <1>2, <1>3
  DEF SyncTypeOK, TasksMatch, AnswersCounted, MergeHasEnoughAnswers, Outstanding
<1>5. ForceFlagHasOwner'
  <2>1. ASSUME NEW r \in Syncs, ForceBegin(r) PROVE ForceFlagHasOwner'
    BY <1>1, <2>1 DEF ForceBegin, ForceFlagHasOwner
  <2>2. ASSUME NEW r \in Syncs, SendRequests(r) PROVE ForceFlagHasOwner'
    <3>1. \A q \in Syncs : task[q] # "none" => task'[q] # "none"
      BY <1>1, <2>2 DEF SendRequests
    <3> QED
      BY <2>2, <3>1 DEF SendRequests, SyncsHaveOwners, ForceFlagHasOwner, Syncs
  <2>3. ASSUME NEW r \in Syncs, ForceNoPeers(r) \/ ConfigReplaced PROVE ForceFlagHasOwner'
    BY <2>3 DEF ForceNoPeers, ConfigReplaced, ForceFlagHasOwner
  <2>4. CASE ConfigReplaced
    BY <2>4 DEF ConfigReplaced, ForceFlagHasOwner
  <2>5. CASE SaveConfig
    BY <2>5 DEF SaveConfig, SyncsHaveOwners, ForceFlagHasOwner
  <2> QED
    BY <2>1, <2>2, <2>3, <2>4, <2>5
<1>6. SyncsHaveOwners'
  BY <1>4, <1>5 DEF SyncsHaveOwners, TasksMatch
<1> QED
  BY <1>4, <1>6

\* A request that is dropped leaves its record, and the flag if it is up.
LEMMA DropKeepsInv ==
    ASSUME SyncInv, NEW r \in Syncs, DropForced(r)
    PROVE  SyncInv'
<1> USE DEF SyncInv
<1>1. task \in [Syncs -> {"none", "begun", "sending", "timer"}]
      /\ forcing \in BOOLEAN /\ adrift \in BOOLEAN
  BY DEF SyncTypeOK
<1>2. /\ task'[r] = "none" /\ task[r] \in {"begun", "sending"} /\ r \in Forced
      /\ \A q \in Syncs \ {r} : task'[q] = task[q]
      /\ dropped' = IF task[r] = "sending" THEN dropped \cup {r} ELSE dropped
      /\ UNCHANGED <<forcing, pending, stuck, saved, repeated>>
  BY <1>1 DEF DropForced
<1>3. SyncTypeOK'
  <2>1. task' \in [Syncs -> {"none", "begun", "sending", "timer"}]
    BY <1>1 DEF DropForced
  <2>2. adrift' \in BOOLEAN
    BY <1>1, Zenon DEF DropForced
  <2> QED
    BY <1>2, <2>1, <2>2 DEF SyncTypeOK
<1>4. TasksMatch'
  <2>1. \A q \in Syncs : Outstanding(q)' <=> Outstanding(q)
    BY <1>2 DEF Outstanding
  <2>2. Outstanding(r) <=> task[r] = "sending"
    BY <1>2 DEF TasksMatch
  <2>3. r \notin dropped
    BY <1>2 DEF TasksMatch
  <2>4. r \in dropped' <=> task[r] = "sending"
    BY <1>2, <2>3
  <2>5. \A q \in Syncs \ {r} : q \in dropped' <=> q \in dropped
    BY <1>2
  <2> QED
    BY <1>2, <2>1, <2>2, <2>4, <2>5 DEF TasksMatch
<1>5. AnswersCounted' /\ MergeHasEnoughAnswers'
  BY <1>2 DEF AnswersCounted, MergeHasEnoughAnswers, Outstanding
<1>6. ForceFlagHasOwner'
  <2> SUFFICES ASSUME forcing', \A q \in Forced : task'[q] = "none" PROVE adrift'
    BY DEF ForceFlagHasOwner
  <2>1. forcing /\ adrift' = (forcing /\ (adrift \/ \A q \in Forced : task'[q] = "none"))
    <3>1. forcing
      BY <1>2
    <3> QED
      BY <3>1, Zenon DEF DropForced
  <2> QED
    BY <2>1, Zenon
<1>7. SyncsHaveOwners'
  BY <1>4, <1>6 DEF SyncsHaveOwners, TasksMatch
<1> QED
  BY <1>3, <1>4, <1>5, <1>7

LEMMA SyncStep == SyncInv /\ [SyncNext]_SyncVars => SyncInv'
<1> SUFFICES ASSUME SyncInv, [SyncNext]_SyncVars PROVE SyncInv'
  OBVIOUS
<1>1. ASSUME NEW r \in Syncs, Begin(r) PROVE SyncInv'
  BY <1>1, SyncStarts, SyncAssumption DEF Begin
<1>2. ASSUME NEW r \in Syncs, ForceStart(r) PROVE SyncInv'
  <2>1. task[r] = "begun" /\ GuardFree /\ ~Outstanding(r)
    BY <1>2 DEF ForceStart, SyncInv, TasksMatch
  <2> QED
    BY <1>2, <2>1, SyncStarts DEF ForceStart
<1>3. ASSUME NEW r \in Syncs, SendRequests(r) \/ ForceBegin(r) \/ ForceNoPeers(r)
      PROVE  SyncInv'
  BY <1>3, FlagStep DEF SendRequests, ForceBegin, ForceNoPeers
<1>4. CASE ConfigReplaced \/ SaveConfig
  BY <1>4, FlagStep DEF ConfigReplaced, SaveConfig
<1>5. CASE Restart
  <2>1. \A r \in Syncs : pending'[r] = NoSync /\ task'[r] = "none" /\ ~Outstanding(r)'
    BY <1>5 DEF Restart, Outstanding
  <2>2. NoSync \in PendingSyncs /\ NoSync.total = 0 /\ NoSync.answers = 0
        /\ NoSync.from = {}
    BY PeersCounted DEF NoSync, PendingSyncs
  <2>3. SyncTypeOK'
    BY <1>5, <2>2 DEF Restart, SyncInv, SyncTypeOK
  <2>4. AnswersCounted'
    BY <1>5, <2>1, <2>2, PeersCounted DEF Restart, AnswersCounted
  <2> QED
    BY <1>5, <2>1, <2>3, <2>4
    DEF Restart, SyncInv, TasksMatch, SyncsHaveOwners, ForceFlagHasOwner,
        MergeHasEnoughAnswers
<1>6. CASE UNCHANGED SyncVars
  BY <1>6
  DEF SyncVars, SyncInv, SyncTypeOK, TasksMatch, AnswersCounted, SyncsHaveOwners,
      ForceFlagHasOwner, MergeHasEnoughAnswers, Outstanding
<1> QED
  BY <1>1, <1>2, <1>3, <1>4, <1>5, <1>6, TimerKeepsInv, ResponseKeepsInv, DropKeepsInv
  DEF SyncNext, SyncTask

\* While sync_in_progress is set some forced sync will come to clear it, unless an
\* earlier process saved it or its last request was dropped; and a sync stays in
\* pending_syncs without its task only when its request was.
THEOREM SyncsStayOwned == SyncSpec => []SyncsHaveOwners
<1>1. SyncInv => SyncsHaveOwners
  BY DEF SyncInv
<1> QED
  BY <1>1, SyncInitInv, SyncStep, PTL DEF SyncSpec

\* The merge begins when, and only when, as many answers came as peers were asked,
\* and has as many configurations unless a sender answered twice.
THEOREM MergesAreComplete == SyncSpec => []MergeHasEnoughAnswers
<1>1. SyncInv => MergeHasEnoughAnswers
  BY DEF SyncInv
<1> QED
  BY <1>1, SyncInitInv, SyncStep, PTL DEF SyncSpec

\* Each outstanding sync is somebody's or was dropped, and merges exactly when its
\* answers are enough, through all answers, timers, failures and restarts.
THEOREM SyncsStayWhole == SyncSpec => []SyncsAreWhole
  BY SyncsStayOwned, MergesAreComplete, PTL DEF SyncsAreWhole

-----------------------------------------------------------------------------
(* MountStateMachine: a checked transition is one of the table.                 *)

MachineInv ==
  /\ currentState \in MountStates
  /\ mover \in [Movers -> [at: {"idle", "write", "record"}, from: MountStates,
                           to: MountStates]]
  /\ \A k \in Movers : mover[k].at = "write" => CanTransition(mover[k].from, mover[k].to)

LEMMA MachineInitInv == MachineInit => MachineInv
  BY DEF MachineInit, MachineInv, Parked, MountStates

LEMMA MachineStep == MachineInv /\ [MachineNext]_MachineVars => MachineInv'
<1> SUFFICES ASSUME MachineInv, [MachineNext]_MachineVars PROVE MachineInv'
  OBVIOUS
<1> USE DEF MachineInv
<1>1. ASSUME NEW k \in Movers, NEW t \in MountStates, CheckTransition(k, t)
      PROVE  MachineInv'
  BY <1>1 DEF CheckTransition
<1>2. ASSUME NEW k \in Movers, WriteState(k) PROVE MachineInv'
  BY <1>2 DEF WriteState
<1>3. ASSUME NEW k \in Movers, RecordTransition(k) PROVE MachineInv'
  <2>1. Parked \in [at: {"idle", "write", "record"}, from: MountStates, to: MountStates]
        /\ Parked.at = "idle"
    BY DEF Parked, MountStates
  <2>2. mover' = [mover EXCEPT ![k] = Parked] /\ currentState' = currentState
    BY <1>3 DEF RecordTransition
  <2> QED
    BY <2>1, <2>2
<1>4. CASE UNCHANGED MachineVars
  BY <1>4 DEF MachineVars
<1> QED
  BY <1>1, <1>2, <1>3, <1>4 DEF MachineNext

\* transition checks under one guard and writes under another (mount/state_machine.rs):
\* for any number of callers, a step that the table forbids happens only when the state
\* is no longer the one the writer checked.
THEOREM ForbiddenNeedsOverlap == MachineSpec => ForbiddenStepNeedsOverlap
<1>1. MachineInv /\ [MachineNext]_MachineVars =>
        [~CanTransition(currentState, currentState') =>
           \E k \in Movers : /\ mover[k].at = "write" /\ mover[k].from # currentState
        ]_MachineVars
  <2> SUFFICES ASSUME MachineInv, MachineNext, ~CanTransition(currentState, currentState')
               PROVE  \E k \in Movers : mover[k].at = "write"
                                        /\ mover[k].from # currentState
    BY DEF MachineNext
  <2>1. currentState' # currentState
    BY DEF CanTransition
  <2>2. PICK k \in Movers : WriteState(k)
    BY <2>1 DEF MachineNext, CheckTransition, RecordTransition
  <2>3. CanTransition(mover[k].from, currentState')
    BY <2>2 DEF WriteState, MachineInv
  <2> QED
    BY <2>2, <2>3 DEF WriteState
<1> QED
  BY <1>1, MachineInitInv, MachineStep, PTL DEF MachineSpec, ForbiddenStepNeedsOverlap

-----------------------------------------------------------------------------
(* ConfigLocks: a lock its holder counts on is in the slot or was displaced.    *)

Displacement ==
  \A u \in LockUsers : holds[u] # "none" =>
    \/ /\ displaced[u] = "none"
       /\ slot = [user |-> u, type |-> holds[u], expired |-> FALSE]
    \/ displaced[u] # "none" /\ slot.user # u

DisplacedByReader ==
  \A u \in LockUsers : /\ holds[u] = "Admin" => displaced[u] = "none"
                       /\ holds[u] = "Write" => displaced[u] \in {"none", "Read"}

LocksInv == LocksTypeOK /\ Displacement /\ DisplacedByReader

LEMMA LocksInitInv == LocksInit => LocksInv
  BY DEF LocksInit, LocksInv, LocksTypeOK, Displacement, DisplacedByReader, Grants

LEMMA AcquireKeepsInv ==
    ASSUME LocksInv, NEW u \in LockUsers, NEW t \in LockTypes, AcquireLock(u, t)
    PROVE  LocksInv'
<1> USE DEF LocksInv, LocksTypeOK, LockTypes
<1>1. /\ slot' = [user |-> u, type |-> t, expired |-> FALSE]
      /\ holds'[u] = t /\ displaced'[u] = "none"
      /\ \A v \in LockUsers \ {u} :
           /\ holds'[v] = holds[v]
           /\ displaced'[v] = IF slot.user = v THEN t ELSE displaced[v]
  BY DEF AcquireLock
<1>2. ASSUME NEW v \in LockUsers \ {u}, holds[v] # "none", slot.user = v
      PROVE  slot.type = holds[v] /\ displaced[v] = "none" /\ ~Conflicts(holds[v], t)
  <2>1. slot.type = holds[v] /\ displaced[v] = "none"
    BY <1>2 DEF Displacement
  <2>2. slot # FreeSlot
    BY <1>2, LocksAssumption DEF FreeSlot
  <2> QED
    BY <2>1, <2>2 DEF AcquireLock
<1>3. LocksTypeOK'
  BY <1>1 DEF AcquireLock
<1>4. Displacement'
  <2>1. ASSUME NEW v \in LockUsers \ {u}, holds[v] # "none"
        PROVE  displaced'[v] # "none" /\ slot'.user # v
    <3>1. displaced[v] # "none" \/ slot.user = v
      BY <2>1 DEF Displacement
    <3>2. t # "none"
      OBVIOUS
    <3> QED
      BY <1>1, <3>1, <3>2
  <2> QED
    BY <1>1, <2>1 DEF Displacement
<1>5. DisplacedByReader'
  BY <1>1, <1>2 DEF DisplacedByReader, Conflicts
<1> QED
  BY <1>3, <1>4, <1>5

LEMMA LocksStep == LocksInv /\ [LocksNext]_LocksVars => LocksInv'
<1> SUFFICES ASSUME LocksInv, [LocksNext]_LocksVars PROVE LocksInv'
  OBVIOUS
<1> USE DEF LocksInv, LocksTypeOK, Displacement, DisplacedByReader, LockTypes
<1>1. ASSUME NEW u \in LockUsers, NEW g \in Grants, SetAccess(u, g) PROVE LocksInv'
  BY <1>1 DEF SetAccess
<1>2. ASSUME NEW u \in LockUsers, AdmitAdmin(u) PROVE LocksInv'
  BY <1>2 DEF AdmitAdmin
<1>3. ASSUME NEW u \in LockUsers, AcquireRefused(u) PROVE LocksInv'
  BY <1>3 DEF AcquireRefused
<1>4. ASSUME NEW u \in LockUsers, ReleaseLock(u) PROVE LocksInv'
  <2>1. LocksTypeOK'
    BY <1>4 DEF ReleaseLock
  <2>2. /\ holds'[u] = "none"
        /\ \A v \in LockUsers \ {u} : holds'[v] = holds[v] /\ displaced'[v] = displaced[v]
    BY <1>4 DEF ReleaseLock
  <2>3. ASSUME NEW v \in LockUsers \ {u}
        PROVE  IF slot.user = v THEN slot' = slot ELSE slot'.user # v
    BY <1>4, LocksAssumption DEF ReleaseLock, FreeSlot
  <2>4. Displacement'
    BY <2>2, <2>3 DEF Displacement
  <2>5. DisplacedByReader'
    BY <2>2 DEF DisplacedByReader
  <2> QED
    BY <2>1, <2>4, <2>5
<1>5. ASSUME NEW u \in LockUsers, NEW t \in LockTypes, AcquireLock(u, t)
      PROVE  LocksInv'
  BY <1>5, AcquireKeepsInv
<1>6. CASE LockExpires
  <2>1. slot \in [user: LockUsers, type: LockTypes, expired: BOOLEAN]
    BY <1>6 DEF LockExpires
  <2>2. /\ slot' = [slot EXCEPT !.expired = TRUE] /\ slot'.user = slot.user
        /\ holds'[slot.user] = "none" /\ displaced' = displaced
        /\ \A v \in LockUsers \ {slot.user} : holds'[v] = holds[v]
    BY <1>6, <2>1 DEF LockExpires
  <2>3. LocksTypeOK'
    BY <1>6, <2>1 DEF LockExpires
  <2>4. Displacement'
    BY <2>1, <2>2 DEF Displacement
  <2>5. DisplacedByReader'
    BY <2>1, <2>2 DEF DisplacedByReader
  <2> QED
    BY <2>3, <2>4, <2>5
<1>7. CASE CleanupExpiredLocks
  BY <1>7, LocksAssumption DEF CleanupExpiredLocks, FreeSlot
<1>8. CASE UNCHANGED LocksVars
  BY <1>8 DEF LocksVars
<1> QED
  BY <1>1, <1>2, <1>3, <1>4, <1>5, <1>6, <1>7, <1>8 DEF LocksNext

\* The lock table has one slot for a configuration (security/config_security.rs): for
\* any number of users, the conflict check lets nobody displace an admin, and only a
\* reader displace a writer.
THEOREM OnlyReadersDisplace == LocksSpec => []LostOnlyToReader
<1>1. LocksInv => LostOnlyToReader
  BY DEF LocksInv, Displacement, DisplacedByReader, LostOnlyToReader
<1> QED
  BY <1>1, LocksInitInv, LocksStep, PTL DEF LocksSpec

-----------------------------------------------------------------------------
(* RetryBreaker: what an open breaker still counts is running already.          *)

RunningCalls == {c \in Callers : call[c].at = "running"}

BreakerInv ==
  /\ breaker \in [made: BOOLEAN, failures: Nat, open: BOOLEAN, age: 0..OpenTimeout]
  /\ call \in [Callers -> [at: {"out", "check", "running", "waiting"}, attempts: Nat]]
  /\ ~breaker.open => breaker.failures < MaxAttempts
  /\ OverrunIsBounded

\* The number of operations running, and the one a failure takes away.
LEMMA RunningCounts ==
    ASSUME NEW R \in SUBSET Callers
    PROVE  /\ Cardinality(R) \in Nat /\ Cardinality(Callers) \in Nat
           /\ \A c \in R : Cardinality(R \ {c}) = Cardinality(R) - 1
           /\ \A c \in R : Cardinality(R \ {c}) < Cardinality(Callers)
<1>1. IsFiniteSet(Callers) /\ IsFiniteSet(R) /\ Cardinality(R) <= Cardinality(Callers)
  BY BreakerAssumption, FS_Subset
<1>2. Cardinality(R) \in Nat /\ Cardinality(Callers) \in Nat
  BY <1>1, FS_CardinalityType
<1>3. \A c \in R : Cardinality(R \ {c}) = Cardinality(R) - 1
  BY <1>1, FS_RemoveElement
<1> QED
  BY <1>1, <1>2, <1>3

LEMMA BreakerInitInv == BreakerInit => BreakerInv
  BY BreakerAssumption
  DEF BreakerInit, BreakerInv, NoBreaker, Out, OverrunIsBounded

\* A breaker that is closed or whose time is over is under no bound.
LEMMA BreakerKeeps ==
    ASSUME BreakerInv,
           breaker' \in [made: BOOLEAN, failures: Nat, open: BOOLEAN, age: 0..OpenTimeout],
           call' \in [Callers -> [at: {"out", "check", "running", "waiting"},
                                  attempts: Nat]],
           ~breaker'.open => breaker'.failures < MaxAttempts,
           breaker'.open /\ breaker'.age < OpenTimeout =>
             /\ breaker.open /\ breaker.age < OpenTimeout
             /\ breaker'.failures = breaker.failures /\ RunningCalls' = RunningCalls
    PROVE  BreakerInv'
<1>1. OverrunIsBounded'
  BY DEF BreakerInv, OverrunIsBounded, RunningCalls
<1> QED
  BY <1>1 DEF BreakerInv

LEMMA BreakerStep == BreakerInv /\ [BreakerNext]_BreakerVars => BreakerInv'
<1> SUFFICES ASSUME BreakerInv, [BreakerNext]_BreakerVars PROVE BreakerInv'
  OBVIOUS
<1> DEFINE Shape == [made: BOOLEAN, failures: Nat, open: BOOLEAN, age: 0..OpenTimeout]
           Stands == [at: {"out", "check", "running", "waiting"}, attempts: Nat]
<1>0. /\ breaker \in Shape /\ call \in [Callers -> Stands]
      /\ ~breaker.open => breaker.failures < MaxAttempts
      /\ MaxAttempts \in Nat \ {0} /\ OpenTimeout \in Nat \ {0}
  BY BreakerAssumption DEF BreakerInv
<1>a. /\ Closed \in Shape /\ NoBreaker \in Shape /\ ~Closed.open /\ ~NoBreaker.open
      /\ Closed.failures = 0 /\ NoBreaker.failures = 0 /\ Out \in Stands
      /\ Out.at = "out"
  BY <1>0 DEF Closed, NoBreaker, Out
<1>1. ASSUME NEW c \in Callers, CallBegins(c) PROVE BreakerInv'
  <2>1. /\ breaker' = breaker /\ call' \in [Callers -> Stands]
        /\ RunningCalls' = RunningCalls
    BY <1>0, <1>1, <1>a DEF CallBegins, RunningCalls
  <2> QED
    BY <1>0, <2>1, BreakerKeeps
<1>2. ASSUME NEW c \in Callers, Admit(c) PROVE BreakerInv'
  <2>1. breaker' \in Shape /\ (~breaker'.open => breaker'.failures < MaxAttempts)
    BY <1>0, <1>2, <1>a DEF Admit
  <2>2. call' \in [Callers -> Stands]
    BY <1>0, <1>2, <1>a DEF Admit
  <2>3. ASSUME breaker'.open, breaker'.age < OpenTimeout
        PROVE  breaker' = breaker /\ RunningCalls' = RunningCalls
    <3>1. breaker' = breaker
      BY <1>2, <1>a, <2>3 DEF Admit
    <3>2. ~AllowsAttempt(breaker')
      BY <1>0, <2>1, <2>3 DEF AllowsAttempt
    <3>3. call' = [call EXCEPT ![c] = Out] /\ call[c].at = "check"
      BY <1>2, <3>2 DEF Admit
    <3> QED
      BY <1>0, <1>a, <3>1, <3>3 DEF RunningCalls
  <2> QED
    BY <2>1, <2>2, <2>3, BreakerKeeps
<1>3. ASSUME NEW c \in Callers, Succeed(c) PROVE BreakerInv'
  <2>1. breaker' \in Shape /\ ~breaker'.open /\ breaker'.failures = 0
    BY <1>3, <1>a DEF Succeed, RecordSuccess
  <2>2. call' \in [Callers -> Stands]
    BY <1>0, <1>3, <1>a DEF Succeed
  <2> QED
    BY <1>0, <2>1, <2>2, BreakerKeeps
<1>4. ASSUME NEW c \in Callers, Fail(c) PROVE BreakerInv'
  <2> DEFINE n == Cardinality(Callers)
  <2>1. /\ call' \in [Callers -> Stands] /\ RunningCalls' = RunningCalls \ {c}
        /\ c \in RunningCalls /\ RunningCalls \in SUBSET Callers
    BY <1>0, <1>4, <1>a DEF Fail, RunningCalls
  <2>2. /\ Cardinality(RunningCalls) \in Nat /\ n \in Nat
        /\ Cardinality(RunningCalls') = Cardinality(RunningCalls) - 1
        /\ Cardinality(RunningCalls') < n
    BY <2>1, RunningCounts
  <2>3. /\ breaker' \in Shape /\ breaker'.failures <= breaker.failures + 1
        /\ ~breaker'.open => breaker'.failures < MaxAttempts
        /\ breaker.open => breaker'.age = breaker.age
    <3> DEFINE count == breaker.failures + 1
               counted == IF count > ManyFailures THEN ManyFailures ELSE count
               opened == breaker.open \/ count >= MaxAttempts
               aged == IF breaker.open THEN breaker.age ELSE 0
    <3>1. breaker' = [breaker EXCEPT !.failures = counted, !.open = opened,
                                     !.age = aged]
      BY <1>4, Zenon DEF Fail, RecordFailure
    <3>2. opened \in BOOLEAN
      BY Zenon
    <3>3. /\ counted \in Nat /\ counted <= breaker.failures + 1
          /\ count < MaxAttempts => counted < MaxAttempts
          /\ aged \in 0..OpenTimeout /\ (breaker.open => aged = breaker.age)
      BY <1>0, <2>2 DEF ManyFailures
    <3>4. ~opened => count < MaxAttempts
      BY <1>0
    <3> HIDE DEF count, counted, opened, aged
    <3>5. /\ breaker' \in Shape /\ breaker'.failures = counted /\ breaker'.open = opened
          /\ breaker'.age = aged
      BY <1>0, <3>1, <3>2, <3>3
    <3> QED
      BY <3>3, <3>4, <3>5
  <2>4. ASSUME breaker'.open, breaker'.age < OpenTimeout
        PROVE  breaker'.failures + Cardinality(RunningCalls') < MaxAttempts + n
    <3>1. CASE breaker.open
      <4>1. breaker.failures + Cardinality(RunningCalls) < MaxAttempts + n
        BY <2>3, <2>4, <3>1 DEF BreakerInv, OverrunIsBounded, RunningCalls
      <4> QED
        BY <1>0, <2>2, <2>3, <4>1
    <3>2. CASE ~breaker.open
      BY <1>0, <2>2, <2>3, <3>2
    <3> QED
      BY <3>1, <3>2
  <2>5. OverrunIsBounded'
    BY <2>4 DEF OverrunIsBounded, RunningCalls
  <2> QED
    BY <2>1, <2>3, <2>5 DEF BreakerInv
<1>5. ASSUME NEW c \in Callers, BackoffEnds(c) PROVE BreakerInv'
  <2>1. /\ breaker' = breaker /\ call' \in [Callers -> Stands]
        /\ RunningCalls' = RunningCalls
    BY <1>0, <1>5 DEF BackoffEnds, RunningCalls
  <2> QED
    BY <1>0, <2>1, BreakerKeeps
<1>6. CASE ResetBreaker
  <2>1. breaker' \in Shape /\ ~breaker'.open /\ breaker'.failures = 0 /\ call' = call
    BY <1>6, <1>a DEF ResetBreaker, RecordSuccess
  <2> QED
    BY <1>0, <2>1, BreakerKeeps
<1>7. CASE BreakerAges
  <2>1. /\ breaker' \in Shape /\ call' = call /\ breaker.open /\ breaker'.open
        /\ breaker'.failures = breaker.failures /\ breaker.age < OpenTimeout
    BY <1>0, <1>7 DEF BreakerAges
  <2>2. RunningCalls' = RunningCalls
    BY <2>1 DEF RunningCalls
  <2> QED
    BY <1>0, <2>1, <2>2, BreakerKeeps
<1>8. CASE UNCHANGED BreakerVars
  BY <1>8 DEF BreakerVars, BreakerInv, OverrunIsBounded
<1> QED
  BY <1>1, <1>2, <1>3, <1>4, <1>5, <1>6, <1>7, <1>8 DEF BreakerNext

\* Callers look at a copy of the breaker and record later (monitoring/retry.rs): for any
\* number of callers, attempts and ticks, a breaker that opened counts at most the
\* operations that were running by then.
THEOREM OverrunStaysBounded == BreakerSpec => []OverrunIsBounded
<1>1. BreakerInv => OverrunIsBounded
  BY DEF BreakerInv
<1> QED
  BY <1>1, BreakerInitInv, BreakerStep, PTL DEF BreakerSpec

-----------------------------------------------------------------------------

-----------------------------------------------------------------------------
(* HealthScheduler: the registry and the cron jobs.                             *)

SchedulerTypes ==
  /\ registry \in [Watched -> Jobs \cup {NoJob}]
  /\ cron \in [Jobs -> Watched \cup {NoWatch}]
  /\ adding \in [Watched -> {"idle", "enter", "schedule", "list"}]
  /\ ticking \in BOOLEAN /\ jammed \in BOOLEAN
  /\ registered \subseteq Watched /\ configured \subseteq Watched
  /\ removing \subseteq Watched /\ monitored \subseteq Watched
  /\ overtaken \subseteq Watched /\ again \subseteq Watched /\ refused \subseteq Jobs

\* A call's mount has its configuration until a removal overtakes the call; an id
\* in the registry belongs to an entry, and to none whose call is yet to fill it.
SchedulerInv ==
  /\ SchedulerTypes
  /\ \A w \in registered : w \in configured \/ w \in overtaken
  /\ \A w \in Watched : adding[w] # "idle" => w \in configured \/ w \in overtaken
  /\ \A w \in Watched : registry[w] # NoJob => w \in registered
  /\ \A w \in Watched : adding[w] = "schedule" => registry[w] = NoJob
  /\ ~ticking => \A j \in Jobs : cron[j] = NoWatch
  /\ \A j \in Jobs : cron[j] # NoWatch /\ registry[cron[j]] # j =>
       cron[j] \in again \/ j \in refused

LEMMA SchedulerInitInv == SchedulerInit => SchedulerInv
  BY SchedulerAssumption DEF SchedulerInit, SchedulerInv, SchedulerTypes

LEMMA StartStopInv ==
  ASSUME SchedulerInv, StartChecks \/ StopChecks PROVE SchedulerInv'
<1> USE SchedulerAssumption DEF SchedulerInv, SchedulerTypes
<1>1. CASE StartChecks
  BY <1>1 DEF StartChecks
<1>2. CASE StopChecks
  BY <1>2 DEF StopChecks
<1> QED
  BY <1>1, <1>2

LEMMA StoreConfigInv ==
  ASSUME SchedulerInv, NEW w \in Watched, StoreConfig(w) PROVE SchedulerInv'
  BY SchedulerAssumption DEF SchedulerInv, SchedulerTypes, StoreConfig

\* A job that loses its entry here was the entry's, so that the mount was registered.
LEMMA EnterRegistryInv ==
  ASSUME SchedulerInv, NEW w \in Watched, EnterRegistry(w) PROVE SchedulerInv'
<1> USE SchedulerAssumption DEF SchedulerInv, SchedulerTypes, EnterRegistry
<1>1. SchedulerTypes'
  OBVIOUS
<1>2. again \subseteq again' /\ (w \in registered => w \in again')
  OBVIOUS
<1>3. \A j \in Jobs : cron'[j] # NoWatch /\ registry'[cron'[j]] # j =>
        cron'[j] \in again' \/ j \in refused'
  <2> SUFFICES ASSUME NEW j \in Jobs, cron[j] # NoWatch, registry'[cron[j]] # j
               PROVE  cron[j] \in again' \/ j \in refused
    OBVIOUS
  <2>1. CASE registry[cron[j]] # j
    BY <1>2, <2>1
  <2>2. CASE registry[cron[j]] = j
    <3>1. cron[j] \in Watched /\ cron[j] = w
      BY <2>2
    <3> QED
      BY <1>2, <2>2, <3>1
  <2> QED
    BY <2>1, <2>2
<1> QED
  BY <1>1, <1>3

\* The job is one nothing refers to, and the entry had none.
LEMMA ScheduleCheckInv ==
  ASSUME SchedulerInv, NEW w \in Watched, ScheduleCheck(w) PROVE SchedulerInv'
<1> USE SchedulerAssumption DEF SchedulerInv, SchedulerTypes
<1>1. CASE ~UNCHANGED <<cron, registry>>
  <2>1. PICK j \in FreeJobs : /\ cron' = [cron EXCEPT ![j] = w]
                              /\ registry' = [registry EXCEPT ![w] = j]
    BY <1>1 DEF ScheduleCheck
  <2>2. /\ j \in Jobs /\ adding[w] = "schedule"
        /\ adding' = [adding EXCEPT ![w] = "list"]
        /\ UNCHANGED <<ticking, registered, configured, removing, monitored, jammed,
                       overtaken, again, refused>>
        /\ w \in registered /\ ticking
    BY <1>1 DEF ScheduleCheck, FreeJobs
  <2>3. SchedulerTypes'
    BY <2>1, <2>2
  <2>4. ASSUME NEW i \in Jobs, cron'[i] # NoWatch, registry'[cron'[i]] # i
        PROVE  cron'[i] \in again \/ i \in refused'
    <3>1. i # j /\ cron'[i] = cron[i]
      BY <2>1, <2>2, <2>4
    <3>2. registry[cron[i]] # i
      BY <2>1, <2>2, <2>4, <3>1
    <3> QED
      BY <2>2, <2>4, <3>1, <3>2
  <2> QED
    BY <1>1, <2>1, <2>2, <2>3, <2>4
<1>2. CASE UNCHANGED <<cron, registry>>
  <2>1. /\ adding[w] = "schedule" /\ adding' \in [Watched -> {"idle", "enter", "schedule", "list"}]
        /\ \A v \in Watched : adding'[v] \in {"idle", "list", adding[v]}
        /\ \A v \in Watched : adding'[v] # "idle" => adding[v] # "idle"
        /\ UNCHANGED <<ticking, registered, configured, removing, monitored, jammed,
                       overtaken, again, refused>>
    BY DEF ScheduleCheck
  <2> QED
    BY <1>2, <2>1
<1> QED
  BY <1>1, <1>2

LEMMA ListMountInv ==
  ASSUME SchedulerInv, NEW w \in Watched, ListMount(w) PROVE SchedulerInv'
  BY DEF SchedulerInv, SchedulerTypes, ListMount

LEMMA UnregisterInv ==
  ASSUME SchedulerInv, NEW w \in Watched, Unregister(w) PROVE SchedulerInv'
<1> USE SchedulerAssumption DEF SchedulerInv, SchedulerTypes
<1> DEFINE own == {j \in Jobs : ticking /\ registry[w] = j /\ cron[j] # NoWatch}
<1>0. PICK kept \in SUBSET own :
        /\ cron' = [j \in Jobs |-> IF j \in own \ kept THEN NoWatch ELSE cron[j]]
        /\ refused' = refused \cup kept
  BY DEF Unregister
<1>1. /\ registry' = [registry EXCEPT ![w] = NoJob]
      /\ registered' = registered \ {w} /\ configured' = configured \ {w}
      /\ overtaken' = IF adding[w] = "idle" THEN overtaken ELSE overtaken \cup {w}
      /\ removing' = removing \cup {w}
      /\ UNCHANGED <<ticking, adding, monitored, jammed, again>>
  BY DEF Unregister
<1>2. SchedulerTypes'
  BY <1>0, <1>1
<1>3. /\ \A v \in registered' : v \in configured' \/ v \in overtaken'
      /\ \A v \in Watched : adding'[v] # "idle" => v \in configured' \/ v \in overtaken'
  BY <1>1
<1>4. /\ \A v \in Watched : registry'[v] # NoJob => v \in registered'
      /\ \A v \in Watched : adding'[v] = "schedule" => registry'[v] = NoJob
      /\ ~ticking' => \A j \in Jobs : cron'[j] = NoWatch
  BY <1>0, <1>1
<1>5. ASSUME NEW i \in Jobs, cron'[i] # NoWatch, registry'[cron'[i]] # i
      PROVE  cron'[i] \in again \/ i \in refused'
  <2>1. cron'[i] = cron[i] /\ cron[i] \in Watched /\ ticking
    BY <1>0, <1>5
  <2>2. CASE registry[cron[i]] # i
    BY <1>0, <2>1, <2>2
  <2>3. CASE registry[cron[i]] = i
    <3>1. cron[i] = w
      BY <1>1, <1>5, <2>1, <2>3
    <3>2. i \in own
      BY <2>1, <2>3, <3>1
    <3> QED
      BY <1>0, <1>5, <3>2
  <2> QED
    BY <2>2, <2>3
<1> QED
  BY <1>1, <1>2, <1>3, <1>4, <1>5

LEMMA UnlistInv ==
  ASSUME SchedulerInv, NEW w \in Watched, Unlist(w) \/ Trigger(w) PROVE SchedulerInv'
  BY DEF SchedulerInv, SchedulerTypes, Unlist, Trigger

LEMMA SchedulerStep == SchedulerInv /\ [SchedulerNext]_SchedulerVars => SchedulerInv'
<1> SUFFICES ASSUME SchedulerInv, [SchedulerNext]_SchedulerVars PROVE SchedulerInv'
  OBVIOUS
<1>1. CASE StartChecks \/ StopChecks
  BY <1>1, StartStopInv
<1>2. ASSUME NEW w \in Watched, StoreConfig(w) PROVE SchedulerInv'
  BY <1>2, StoreConfigInv
<1>3. ASSUME NEW w \in Watched, AddStep(w) PROVE SchedulerInv'
  BY <1>3, EnterRegistryInv, ScheduleCheckInv, ListMountInv DEF AddStep
<1>4. ASSUME NEW w \in Watched, Unregister(w) PROVE SchedulerInv'
  BY <1>4, UnregisterInv
<1>5. ASSUME NEW w \in Watched, Unlist(w) \/ Trigger(w) PROVE SchedulerInv'
  BY <1>5, UnlistInv
<1>6. CASE UNCHANGED SchedulerVars
  BY <1>6 DEF SchedulerVars, SchedulerInv, SchedulerTypes
<1> QED
  BY <1>1, <1>2, <1>3, <1>4, <1>5, <1>6 DEF SchedulerNext

\* For any number of mounts and jobs: a registered mount has its configuration and
\* the registry knows every cron job, but where a removal overtook a registration, a
\* mount was registered again, or the scheduler refused to remove a job
\* (scheduler.rs, mod.rs: four awaits to register).
THEOREM RegistryKeepsUp == SchedulerSpec => []RegistryMatchesJobs
<1>1. SchedulerInv => RegistryMatchesJobs
  BY DEF SchedulerInv, RegistryMatchesJobs
<1> QED
  BY <1>1, SchedulerStep, SchedulerInitInv, PTL DEF SchedulerSpec

-----------------------------------------------------------------------------
(* DependencyGraph: the numbers of the mounts until a removal moves a node.      *)

\* The two maps are each other's inverse on the nodes.
MapsAgree ==
  /\ \A s \in Shares : number[s] # Missing =>
       number[s] \in Nodes /\ name[number[s]] = s
  /\ \A n \in Nodes : name[n] \in Shares /\ number[name[n]] = n

\* The pairs joined are the numbers of the dependencies asked for, and of those that
\* outlived their removal.
Stands == declared \cup surviving
EdgesDeclared ==
  /\ \A d \in Stands : number[d[1]] # Missing /\ number[d[2]] # Missing
  /\ Joined(edges) = {<<number[d[1]], number[d[2]]>> : d \in Stands}
  /\ surviving # {} => shuffled

GraphInv == GraphTypeOK /\ (~renumbered => MapsAgree /\ EdgesDeclared)

LEMMA SharesCount == Cardinality(Shares) \in Nat
  BY GraphAssumption, FS_CardinalityType

\* What a pair of numbers is joined by, after any change.
LEMMA BecomeTyped ==
  ASSUME NEW counts \in [Pairs -> Nat], EdgesBecome(counts)
  PROVE  edges' \in [Pairs -> Nat] /\ shuffled' \in BOOLEAN /\ edges' = counts
BY DEF EdgesBecome

LEMMA OneMore ==
  ASSUME edges \in [Pairs -> Nat], NEW e \in Pairs, edges' = [edges EXCEPT ![e] = @ + 1]
  PROVE  edges' \in [Pairs -> Nat] /\ Joined(edges') = Joined(edges) \cup {e}
BY DEF Joined

\* How many of the edges of a pair a removal leaves.
LEMMA RestIsNat ==
  ASSUME edges \in [Pairs -> Nat], NEW e \in Pairs,
         NEW rest \in 0..(IF shuffled THEN edges[e] \div 2 ELSE 0)
  PROVE  /\ rest \in Nat /\ [edges EXCEPT ![e] = rest] \in [Pairs -> Nat]
         /\ rest > 0 => shuffled /\ edges[e] > 0
         /\ Joined([edges EXCEPT ![e] = rest]) =
              IF rest = 0 THEN Joined(edges) \ {e} ELSE Joined(edges)
<1>1. edges[e] \in Nat /\ edges[e] \div 2 \in Nat
  OBVIOUS
<1>2. rest \in Nat /\ (rest > 0 => shuffled /\ edges[e] > 0)
  BY <1>1
<1>3. [edges EXCEPT ![e] = rest] \in [Pairs -> Nat]
  BY <1>2
<1> QED
  BY <1>2, <1>3 DEF Joined

\* Where an edge is after a node has gone, and what it was before.
LEMMA NodeGoes ==
  ASSUME GraphTypeOK, NEW gone \in Nodes, RemoveNode(gone)
  PROVE  /\ size' = size - 1 /\ size' \in 0..Cardinality(Shares) /\ size \in Nat
         /\ edges' \in [Pairs -> Nat] /\ shuffled' \in BOOLEAN
         /\ \A e \in Joined(edges') :
              /\ e[1] \in 0..(size - 2) /\ e[2] \in 0..(size - 2)
              /\ <<Former(e[1], gone), Former(e[2], gone)>> \in Joined(edges)
         /\ gone = size - 1 =>
              Joined(edges') = {e \in Joined(edges) : e[1] # gone /\ e[2] # gone}
<1> USE SharesCount DEF GraphTypeOK
<1> DEFINE counts == [e \in Pairs |->
             IF e[1] < size - 1 /\ e[2] < size - 1
             THEN edges[<<Former(e[1], gone), Former(e[2], gone)>>] ELSE 0]
<1>1. size' = size - 1 /\ EdgesBecome(counts)
  BY DEF RemoveNode
<1>2. size \in 1..Cardinality(Shares) /\ gone \in 0..(size - 1) /\ Nodes \subseteq Numbers
  BY DEF Nodes, Numbers
<1>3. size' \in 0..Cardinality(Shares) /\ size \in Nat
  BY <1>1, <1>2
<1>4. ASSUME NEW e \in Pairs, e[1] < size - 1, e[2] < size - 1
      PROVE  /\ e = <<e[1], e[2]>> /\ e[1] \in 0..(size - 2) /\ e[2] \in 0..(size - 2)
             /\ <<Former(e[1], gone), Former(e[2], gone)>> \in Pairs
             /\ gone = size - 1 => <<Former(e[1], gone), Former(e[2], gone)>> = e
  <2>1. e = <<e[1], e[2]>> /\ e[1] \in Numbers /\ e[2] \in Numbers
    BY DEF Pairs
  <2>2. e[1] \in 0..(size - 2) /\ e[2] \in 0..(size - 2)
    BY <1>2, <1>4, <2>1 DEF Numbers
  <2>3. Former(e[1], gone) \in Numbers /\ Former(e[2], gone) \in Numbers
    BY <1>2, <2>1 DEF Former, Numbers
  <2>4. gone = size - 1 => Former(e[1], gone) = e[1] /\ Former(e[2], gone) = e[2]
    BY <1>2, <2>2 DEF Former
  <2> QED
    BY <2>1, <2>2, <2>3, <2>4 DEF Pairs
<1>5. counts \in [Pairs -> Nat]
  BY <1>4
<1>6. edges' = counts /\ edges' \in [Pairs -> Nat] /\ shuffled' \in BOOLEAN
  <2> HIDE DEF counts
  <2> QED
    BY <1>1, <1>5, BecomeTyped
<1>7. ASSUME NEW e \in Joined(edges')
      PROVE  /\ e \in Pairs /\ e[1] \in 0..(size - 2) /\ e[2] \in 0..(size - 2)
             /\ <<Former(e[1], gone), Former(e[2], gone)>> \in Joined(edges)
             /\ gone = size - 1 => e \in Joined(edges)
  <2>1. e \in Pairs /\ counts[e] > 0
    BY <1>6 DEF Joined
  <2>2. e[1] < size - 1 /\ e[2] < size - 1
        /\ edges[<<Former(e[1], gone), Former(e[2], gone)>>] > 0
    BY <2>1
  <2> QED
    BY <1>4, <2>1, <2>2 DEF Joined
<1>8. ASSUME gone = size - 1, NEW e \in Joined(edges), e[1] # gone, e[2] # gone
      PROVE  e \in Joined(edges')
  <2>1. e \in Pairs /\ edges[e] > 0 /\ e[1] \in Nodes /\ e[2] \in Nodes
    BY DEF Joined
  <2>2. e[1] < size - 1 /\ e[2] < size - 1
    BY <1>2, <1>8, <2>1 DEF Nodes
  <2>3. counts[e] = edges[e]
    BY <1>4, <1>8, <2>1, <2>2
  <2> QED
    BY <1>6, <2>1, <2>3 DEF Joined
<1>9. gone = size - 1 =>
        Joined(edges') = {e \in Joined(edges) : e[1] # gone /\ e[2] # gone}
  <2> SUFFICES ASSUME gone = size - 1
               PROVE  Joined(edges') = {e \in Joined(edges) : e[1] # gone /\ e[2] # gone}
    OBVIOUS
  <2>1. ASSUME NEW e \in Joined(edges')
        PROVE  e \in Joined(edges) /\ e[1] # gone /\ e[2] # gone
    <3>1. e \in Joined(edges) /\ e[1] \in 0..(size - 2) /\ e[2] \in 0..(size - 2)
      BY <1>7
    <3> QED
      BY <1>2, <3>1
  <2> QED
    BY <1>8, <2>1
<1> HIDE DEF counts
<1> QED
  BY <1>1, <1>3, <1>6, <1>7, <1>9

LEMMA GraphTypes == GraphTypeOK /\ [GraphNext]_GraphVars => GraphTypeOK'
<1> SUFFICES ASSUME GraphTypeOK, [GraphNext]_GraphVars PROVE GraphTypeOK'
  OBVIOUS
<1> USE SharesCount DEF GraphTypeOK
<1>a. Pairs' = Pairs /\ \A c : Joined(c)' = Joined(c)
  BY DEF Pairs, Numbers, Joined
<1>1. ASSUME NEW s \in Shares, AddMount(s) PROVE GraphTypeOK'
  <2>1. size \in Numbers /\ size' = size + 1 /\ size' \in 0..Cardinality(Shares)
    BY <1>1 DEF AddMount, Numbers
  <2>2. Joined(edges)' \subseteq Nodes' \X Nodes'
    <3>1. Nodes \subseteq Nodes'
      BY <2>1 DEF Nodes, Numbers
    <3>2. Joined(edges)' = Joined(edges)
      BY <1>1 DEF AddMount, Joined, Pairs, Numbers
    <3> QED
      BY <3>1, <3>2
  <2>3. number' \in [Shares -> Numbers \cup {Missing}]
    BY <1>1, <2>1 DEF AddMount
  <2>4. name' \in [Numbers -> Shares \cup {NoShare}]
    BY <1>1, <2>1 DEF AddMount
  <2> QED
    BY <1>1, <1>a, <2>1, <2>2, <2>3, <2>4 DEF AddMount
<1>2. ASSUME NEW s \in Shares, RemoveShare(s) PROVE GraphTypeOK'
  <2>1. number[s] \in Numbers
    BY <1>2 DEF RemoveShare
  <2>2. number' \in [Shares -> Numbers \cup {Missing}]
    BY <1>2 DEF RemoveShare
  <2>3. name' \in [Numbers -> Shares \cup {NoShare}]
    BY <1>2, <2>1 DEF RemoveShare
  <2>4. /\ declared' \subseteq Shares \X Shares /\ renumbered' \in BOOLEAN
        /\ surviving' \subseteq Shares \X Shares
    BY <1>2 DEF RemoveShare
  <2>5. CASE number[s] \notin Nodes
    <3>1. UNCHANGED <<size, edges, shuffled>>
      BY <1>2, <2>5, Zenon DEF RemoveShare
    <3>2. Joined(edges)' \subseteq Nodes' \X Nodes'
      BY <3>1 DEF Joined, Pairs, Numbers, Nodes
    <3> QED
      BY <1>a, <2>2, <2>3, <2>4, <3>1, <3>2
  <2>6. CASE number[s] \in Nodes
    <3>1. RemoveNode(number[s])
      BY <1>2, <2>6, Zenon DEF RemoveShare
    <3>2. /\ size' = size - 1 /\ size' \in 0..Cardinality(Shares)
          /\ edges' \in [Pairs -> Nat] /\ shuffled' \in BOOLEAN
          /\ \A e \in Joined(edges') : e[1] \in 0..(size - 2) /\ e[2] \in 0..(size - 2)
      BY <2>6, <3>1, NodeGoes
    <3>3. Joined(edges)' \subseteq Nodes' \X Nodes'
      <4>1. \A e \in Joined(edges)' : e = <<e[1], e[2]>>
        BY DEF Joined, Pairs
      <4>2. Joined(edges)' = Joined(edges')
        BY DEF Joined, Pairs, Numbers
      <4>3. Nodes' = 0..(size - 2)
        BY <3>2 DEF Nodes
      <4> QED
        BY <3>2, <4>1, <4>2, <4>3
    <3> QED
      BY <1>a, <2>2, <2>3, <2>4, <3>2, <3>3
  <2> QED
    BY <2>5, <2>6
<1>3. ASSUME NEW s \in Shares, NEW t \in Shares, AddDependency(s, t)
      PROVE  GraphTypeOK'
  <2>1. <<number[t], number[s]>> \in Pairs /\ <<number[t], number[s]>> \in Nodes \X Nodes
        /\ Nodes' = Nodes
    BY <1>3 DEF AddDependency, Pairs, Nodes, Numbers
  <2>2. edges' \in [Pairs -> Nat] /\ Joined(edges') \subseteq Nodes \X Nodes
    <3>1. edges' = [edges EXCEPT ![<<number[t], number[s]>>] = @ + 1]
      BY <1>3 DEF AddDependency
    <3>2. edges' \in [Pairs -> Nat]
          /\ Joined(edges') = Joined(edges) \cup {<<number[t], number[s]>>}
      BY <2>1, <3>1, OneMore
    <3> QED
      BY <2>1, <3>2
  <2>3. declared' \subseteq Shares \X Shares
    BY <1>3 DEF AddDependency
  <2> QED
    BY <1>a, <1>3, <2>1, <2>2, <2>3 DEF AddDependency, Joined
<1>4. ASSUME NEW s \in Shares, NEW t \in Shares, RemoveDependency(s, t)
      PROVE  GraphTypeOK'
  <2> DEFINE pair == <<number[t], number[s]>>
  <2>1. pair \in Pairs
    BY <1>4 DEF RemoveDependency, Pairs
  <2> HIDE DEF pair
  <2>2. PICK rest \in 0..(IF shuffled THEN edges[pair] \div 2 ELSE 0) :
          EdgesBecome([edges EXCEPT ![pair] = rest])
          /\ surviving' \in {surviving \ {<<t, s>>}, surviving \cup {<<t, s>>}}
    BY <1>4 DEF RemoveDependency, pair
  <2>3. edges' \in [Pairs -> Nat] /\ shuffled' \in BOOLEAN
        /\ Joined(edges') \subseteq Joined(edges)
    <3> DEFINE counts == [edges EXCEPT ![pair] = rest]
    <3>1. counts \in [Pairs -> Nat] /\ Joined(counts) \subseteq Joined(edges)
      BY <2>1, RestIsNat
    <3>2. EdgesBecome(counts)
      BY <2>2
    <3> HIDE DEF counts
    <3> QED
      BY <3>1, <3>2, BecomeTyped
  <2>4. UNCHANGED <<size, number, name, renumbered>> /\ declared' \subseteq Shares \X Shares
        /\ surviving' \subseteq Shares \X Shares
    BY <1>4, <2>2 DEF RemoveDependency
  <2>5. Joined(edges)' \subseteq Nodes' \X Nodes'
    BY <2>3, <2>4 DEF Joined, Pairs, Numbers, Nodes
  <2> QED
    BY <1>a, <2>3, <2>4, <2>5
<1>5. CASE UNCHANGED GraphVars
  <2>1. Joined(edges)' \subseteq Nodes' \X Nodes'
    BY <1>5 DEF GraphVars, Joined, Pairs, Numbers, Nodes
  <2> QED
    BY <1>a, <1>5, <2>1 DEF GraphVars
<1> QED
  BY <1>1, <1>2, <1>3, <1>4, <1>5 DEF GraphNext

\* The pairs that stand change as the edges do.
LEMMA DeclaredFollows ==
  ASSUME number' = number, EdgesDeclared, MapsAgree,
         surviving' # {} => shuffled',
         declared \subseteq Shares \X Shares, surviving \subseteq Shares \X Shares,
         NEW s \in Shares, NEW t \in Shares, number[s] # Missing, number[t] # Missing,
         \/ Stands' = Stands \cup {<<t, s>>} /\
            Joined(edges') = Joined(edges) \cup {<<number[t], number[s]>>}
         \/ Stands' = Stands \ {<<t, s>>} /\
            Joined(edges') = Joined(edges) \ {<<number[t], number[s]>>}
  PROVE  EdgesDeclared'
<1> DEFINE pair == <<number[t], number[s]>>
<1>1. \A d \in Stands : /\ d[1] \in Shares /\ d[2] \in Shares /\ d = <<d[1], d[2]>>
                        /\ number[d[1]] # Missing /\ number[d[2]] # Missing
  BY DEF Stands, EdgesDeclared
<1>2. Joined(edges) = {<<number[d[1]], number[d[2]]>> : d \in Stands}
  BY DEF EdgesDeclared
<1>3. ASSUME NEW d \in Stands, <<number[d[1]], number[d[2]]>> = pair PROVE d = <<t, s>>
  BY <1>1, <1>3 DEF MapsAgree
<1>4. \A d \in Stands' : number[d[1]] # Missing /\ number[d[2]] # Missing
  BY <1>1
<1>5. Joined(edges') = {<<number[d[1]], number[d[2]]>> : d \in Stands'}
  <2>1. CASE Stands' = Stands \cup {<<t, s>>} /\ Joined(edges') = Joined(edges) \cup {pair}
    <3>0. <<t, s>> \in Stands' /\ pair = <<number[<<t, s>>[1]], number[<<t, s>>[2]]>>
      BY <2>1
    <3>1. \A e \in Joined(edges') : \E d \in Stands' : e = <<number[d[1]], number[d[2]]>>
      <4> SUFFICES ASSUME NEW e \in Joined(edges')
                   PROVE  \E d \in Stands' : e = <<number[d[1]], number[d[2]]>>
        OBVIOUS
      <4>1. CASE e = pair
        BY <3>0, <4>1
      <4>2. CASE e \in Joined(edges)
        <5>1. PICK d \in Stands : e = <<number[d[1]], number[d[2]]>>
          BY <1>2, <4>2
        <5> QED
          BY <2>1, <5>1
      <4> QED
        BY <2>1, <4>1, <4>2
    <3>2. \A d \in Stands' : <<number[d[1]], number[d[2]]>> \in Joined(edges')
      BY <1>2, <2>1
    <3> QED
      BY <3>1, <3>2
  <2>2. CASE Stands' = Stands \ {<<t, s>>} /\ Joined(edges') = Joined(edges) \ {pair}
    <3>1. \A e \in Joined(edges') : \E d \in Stands' : e = <<number[d[1]], number[d[2]]>>
      BY <1>2, <2>2
    <3>2. \A d \in Stands' : <<number[d[1]], number[d[2]]>> \in Joined(edges')
      BY <1>2, <1>3, <2>2
    <3> QED
      BY <3>1, <3>2
  <2> QED
    BY <2>1, <2>2
<1>6. Joined(edges)' = Joined(edges')
  BY DEF Joined, Pairs, Numbers
<1> QED
  BY <1>4, <1>5, <1>6 DEF EdgesDeclared

LEMMA GraphStep == GraphInv /\ [GraphNext]_GraphVars => GraphInv'
<1> SUFFICES ASSUME GraphInv, [GraphNext]_GraphVars, ~renumbered'
             PROVE  MapsAgree' /\ EdgesDeclared'
  BY GraphTypes DEF GraphInv
<1> USE SharesCount DEF GraphInv, GraphTypeOK
<1>0. ~renumbered /\ MapsAgree /\ EdgesDeclared
  BY DEF GraphNext, GraphVars, AddMount, RemoveShare, AddDependency, RemoveDependency
<1>a. \A d \in Stands : d[1] \in Shares /\ d[2] \in Shares /\ d = <<d[1], d[2]>>
  BY DEF Stands
<1>b. Joined(edges)' = Joined(edges') /\ Stands' = declared' \cup surviving'
  BY DEF Joined, Pairs, Numbers, Stands
<1>1. ASSUME NEW s \in Shares, AddMount(s) PROVE MapsAgree' /\ EdgesDeclared'
  <2>1. size \in Numbers /\ size' = size + 1
    BY <1>1 DEF AddMount, Numbers
  <2>2. /\ number'[s] = size /\ name'[size] = s
        /\ \A t \in Shares \ {s} : number'[t] = number[t]
        /\ \A n \in Numbers \ {size} : name'[n] = name[n]
    BY <1>1, <2>1 DEF AddMount
  <2>3. Nodes' = Nodes \cup {size} /\ Nodes \subseteq Numbers \ {size}
    BY <2>1 DEF Nodes, Numbers
  <2>4. \A t \in Shares : number'[t] # Missing =>
          number'[t] \in Nodes' /\ name'[number'[t]] = t
    BY <1>0, <2>2, <2>3 DEF MapsAgree
  <2>5. \A n \in Nodes' : name'[n] \in Shares /\ number'[name'[n]] = n
    <3>1. \A n \in Nodes : name[n] # s
      BY <1>0, <1>1, <2>3 DEF MapsAgree, AddMount, Numbers, Missing
    <3> QED
      BY <1>0, <2>2, <2>3, <3>1 DEF MapsAgree
  <2>6. \A d \in Stands : number'[d[1]] = number[d[1]] /\ number'[d[2]] = number[d[2]]
    BY <1>0, <1>a, <1>1, <2>2 DEF EdgesDeclared, AddMount
  <2>7. UNCHANGED <<edges, shuffled, declared, surviving>>
    BY <1>1 DEF AddMount
  <2>8. Joined(edges)' = Joined(edges) /\ Stands' = Stands
    BY <1>b, <2>7 DEF Stands
  <2>9. EdgesDeclared'
    BY <1>0, <2>6, <2>7, <2>8 DEF EdgesDeclared
  <2> QED
    BY <2>4, <2>5, <2>9 DEF MapsAgree
<1>2. ASSUME NEW s \in Shares, RemoveShare(s) PROVE MapsAgree' /\ EdgesDeclared'
  <2>1. number[s] \in Nodes /\ name[number[s]] = s /\ number[s] \in Numbers
    BY <1>0, <1>2 DEF RemoveShare, MapsAgree
  <2>0. RemoveNode(number[s]) /\ renumbered' = (renumbered \/ number[s] # size - 1)
    BY <1>2, <2>1, Zenon DEF RemoveShare
  <2>2. number[s] = size - 1 /\ size' = size - 1 /\ size \in Nat
    <3>1. size' = size - 1 /\ size \in Nat
      BY <2>0, <2>1, NodeGoes
    <3>2. number[s] = size - 1
      BY <2>0, Zenon
    <3> QED
      BY <3>1, <3>2
  <2>3. /\ number'[s] = Missing
        /\ \A t \in Shares \ {s} : number'[t] = number[t]
        /\ \A n \in Numbers \ {number[s]} : name'[n] = name[n]
    BY <1>2, <2>1 DEF RemoveShare
  <2>4. Nodes' = Nodes \ {number[s]} /\ Nodes \subseteq Numbers
    BY <2>1, <2>2 DEF Nodes, Numbers
  <2>5. \A t \in Shares \ {s} : number[t] # Missing => number[t] # number[s]
    BY <1>0, <2>1 DEF MapsAgree
  <2>6. \A t \in Shares : number'[t] # Missing =>
          number'[t] \in Nodes' /\ name'[number'[t]] = t
    BY <1>0, <2>3, <2>4, <2>5 DEF MapsAgree
  <2>7. \A n \in Nodes' : name'[n] \in Shares /\ number'[name'[n]] = n
    BY <1>0, <2>1, <2>3, <2>4 DEF MapsAgree
  <2>8. Stands' = {d \in Stands : s \notin {d[1], d[2]}}
        /\ surviving' \subseteq surviving
    BY <1>2, <1>b DEF RemoveShare, Stands
  <2>9. \A d \in Stands' : /\ d \in Stands
                           /\ number'[d[1]] = number[d[1]] /\ number'[d[1]] # Missing
                           /\ number'[d[2]] = number[d[2]] /\ number'[d[2]] # Missing
    BY <1>0, <1>a, <2>3, <2>8 DEF EdgesDeclared
  <2>10. Joined(edges)' = {e \in Joined(edges) : e[1] # number[s] /\ e[2] # number[s]}
    BY <1>b, <2>0, <2>1, <2>2, NodeGoes
  <2>11. Joined(edges)' = {<<number'[d[1]], number'[d[2]]>> : d \in Stands'}
    <3>1. ASSUME NEW d \in Stands
          PROVE  d \in Stands' <=> number[d[1]] # number[s] /\ number[d[2]] # number[s]
      BY <1>0, <1>a, <2>5, <2>8 DEF EdgesDeclared
    <3>2. \A e \in Joined(edges)' : \E d \in Stands' : e = <<number'[d[1]], number'[d[2]]>>
      BY <1>0, <2>9, <2>10, <3>1 DEF EdgesDeclared
    <3>3. \A d \in Stands' : <<number'[d[1]], number'[d[2]]>> \in Joined(edges)'
      BY <1>0, <2>9, <2>10, <3>1 DEF EdgesDeclared
    <3> QED
      BY <3>2, <3>3
  <2>12. surviving' # {} => shuffled'
    <3> SUFFICES ASSUME surviving' # {} PROVE shuffled'
      OBVIOUS
    <3>1. surviving # {} /\ declared' \cup surviving' # {} /\ shuffled
      BY <1>0, <1>b, <2>8 DEF EdgesDeclared
    <3>2. Joined(edges') # {}
      <4>1. PICK d \in Stands' : TRUE
        BY <1>b, <3>1
      <4>2. <<number'[d[1]], number'[d[2]]>> \in Joined(edges)'
        BY <2>11
      <4> QED
        BY <1>b, <4>2
    <3>3. shuffled' = (Joined(edges') # {} /\ (shuffled \/ edges' # edges))
      BY <2>0 DEF RemoveNode, EdgesBecome
    <3> QED
      BY <3>1, <3>2, <3>3, Zenon
  <2> QED
    BY <2>6, <2>7, <2>9, <2>11, <2>12 DEF MapsAgree, EdgesDeclared
<1>3. ASSUME NEW s \in Shares, NEW t \in Shares, AddDependency(s, t)
      PROVE  MapsAgree' /\ EdgesDeclared'
  <2>1. MapsAgree'
    BY <1>0, <1>3 DEF AddDependency, MapsAgree, Nodes
  <2>2. /\ number' = number /\ shuffled' = shuffled /\ surviving' = surviving
        /\ declared' = declared \cup {<<t, s>>}
        /\ number[s] \in Nodes /\ number[t] \in Nodes
        /\ edges' = [edges EXCEPT ![<<number[t], number[s]>>] = @ + 1]
    BY <1>0, <1>3 DEF AddDependency
  <2>3. /\ <<number[t], number[s]>> \in Pairs /\ number[s] # Missing /\ number[t] # Missing
    BY <2>2 DEF Pairs, Nodes, Numbers, Missing
  <2>4. Joined(edges') = Joined(edges) \cup {<<number[t], number[s]>>}
    BY <2>2, <2>3, OneMore
  <2>5. Stands' = Stands \cup {<<t, s>>} /\ (surviving' # {} => shuffled')
    BY <1>0, <1>b, <2>2 DEF Stands, EdgesDeclared
  <2>6. EdgesDeclared'
    BY <1>0, <2>2, <2>3, <2>4, <2>5, DeclaredFollows
  <2> QED
    BY <2>1, <2>6
<1>4. ASSUME NEW s \in Shares, NEW t \in Shares, RemoveDependency(s, t)
      PROVE  MapsAgree' /\ EdgesDeclared'
  <2> DEFINE pair == <<number[t], number[s]>>
  <2>1. MapsAgree'
    BY <1>0, <1>4 DEF RemoveDependency, MapsAgree, Nodes
  <2>2. /\ number' = number /\ declared' = declared \ {<<t, s>>}
        /\ number[s] # Missing /\ number[t] # Missing /\ pair \in Pairs
    BY <1>4 DEF RemoveDependency, Pairs
  <2>3. PICK rest \in 0..(IF shuffled THEN edges[pair] \div 2 ELSE 0) :
          /\ EdgesBecome([edges EXCEPT ![pair] = rest])
          /\ surviving' = IF renumbered \/ rest = 0 THEN surviving \ {<<t, s>>}
                          ELSE surviving \cup {<<t, s>>}
    BY <1>4 DEF RemoveDependency
  <2> HIDE DEF pair
  <2>4. /\ rest \in Nat /\ (rest > 0 => shuffled /\ edges[pair] > 0)
        /\ edges' = [edges EXCEPT ![pair] = rest] /\ edges' \in [Pairs -> Nat]
        /\ Joined(edges') = IF rest = 0 THEN Joined(edges) \ {pair} ELSE Joined(edges)
    <3> DEFINE counts == [edges EXCEPT ![pair] = rest]
    <3>1. /\ rest \in Nat /\ (rest > 0 => shuffled /\ edges[pair] > 0)
          /\ counts \in [Pairs -> Nat]
          /\ Joined(counts) = IF rest = 0 THEN Joined(edges) \ {pair} ELSE Joined(edges)
      BY <2>2, RestIsNat
    <3>2. EdgesBecome(counts)
      BY <2>3
    <3>3. edges' = counts
      BY <3>2 DEF EdgesBecome
    <3> QED
      BY <3>1, <3>3
  <2>5. shuffled' = (Joined(edges') # {} /\ (shuffled \/ edges' # edges))
    BY <2>3, <2>4 DEF EdgesBecome
  <2>6. CASE rest = 0
    <3>1. /\ Stands' = Stands \ {<<t, s>>} /\ surviving' = surviving \ {<<t, s>>}
          /\ Joined(edges') = Joined(edges) \ {pair}
      BY <1>b, <2>2, <2>3, <2>4, <2>6 DEF Stands
    <3>2. surviving' # {} => shuffled'
      <4> SUFFICES ASSUME NEW d \in surviving' PROVE shuffled'
        OBVIOUS
      <4>1. d \in Stands /\ d # <<t, s>> /\ shuffled
        BY <1>0, <3>1 DEF Stands, EdgesDeclared
      <4>2. <<number[d[1]], number[d[2]]>> \in Joined(edges)
            /\ number[d[1]] # Missing /\ number[d[2]] # Missing
        BY <1>0, <4>1 DEF EdgesDeclared
      <4>3. <<number[d[1]], number[d[2]]>> # pair
        BY <1>0, <1>a, <2>2, <4>1, <4>2 DEF MapsAgree, pair
      <4>4. Joined(edges') # {}
        BY <3>1, <4>2, <4>3
      <4> QED
        BY <2>5, <4>1, <4>4, Zenon
    <3> QED
      BY <1>0, <2>1, <2>2, <3>1, <3>2, DeclaredFollows DEF pair
  <2>7. CASE rest # 0
    <3>1. rest > 0 /\ pair \in Joined(edges) /\ Joined(edges') = Joined(edges) /\ shuffled
      BY <2>2, <2>4, <2>7 DEF Joined
    <3>2. Stands' = Stands \cup {<<t, s>>}
      BY <1>0, <1>b, <2>2, <2>3, <2>7 DEF Stands
    <3>3. shuffled' /\ Joined(edges') = Joined(edges) \cup {pair}
      BY <2>5, <3>1
    <3> QED
      BY <1>0, <2>1, <2>2, <3>2, <3>3, DeclaredFollows DEF pair
  <2> QED
    BY <2>6, <2>7
<1>5. CASE UNCHANGED GraphVars
  <2>1. UNCHANGED <<edges, shuffled, declared, surviving, number, name, size>>
    BY <1>5 DEF GraphVars
  <2>2. Joined(edges)' = Joined(edges) /\ Stands' = Stands
    BY <1>b, <2>1 DEF Stands
  <2> QED
    BY <1>0, <2>1, <2>2 DEF MapsAgree, EdgesDeclared, Nodes
<1> QED
  BY <1>1, <1>2, <1>3, <1>4, <1>5 DEF GraphNext

\* Every node has a place in every order.
LEMMA OrdersAreFull ==
  ASSUME size \in Nat, NEW o \in Orders, NEW n \in Nodes
  PROVE  \E i \in DOMAIN o : o[i] = n
<1>1. o \in [1..size -> Nodes] /\ \A i, j \in 1..size : o[i] = o[j] => i = j
  BY DEF Orders
<1>2. o \in Injection(1..size, Nodes)
  BY <1>1, Fun_IsInj
<1>3. /\ IsFiniteSet(1..size) /\ Cardinality(1..size) = size
      /\ IsFiniteSet(Nodes) /\ Cardinality(Nodes) = size
  BY FS_Interval DEF Nodes
<1>4. o \in Surjection(1..size, Nodes)
  BY <1>2, <1>3, FS_Injection
<1> QED
  BY <1>4, Fun_SurjectionProperties

LEMMA GraphInitInv == GraphInit => GraphInv
<1> SUFFICES ASSUME GraphInit PROVE GraphInv
  OBVIOUS
<1>1. GraphTypeOK
  <2>1. name \in [Numbers -> Shares \cup {NoShare}]
    BY DEF GraphInit
  <2>2. number \in [Shares -> Numbers \cup {Missing}]
    BY DEF GraphInit
  <2>3. size \in 0..Cardinality(Shares)
    BY SharesCount DEF GraphInit
  <2>4. renumbered \in BOOLEAN
    BY DEF GraphInit
  <2>5. /\ edges \in [Pairs -> Nat] /\ Joined(edges) = {} /\ shuffled \in BOOLEAN
        /\ declared \subseteq Shares \X Shares /\ surviving \subseteq Shares \X Shares
    <3>1. edges = [e \in Pairs |-> 0]
      BY DEF GraphInit
    <3>2. edges \in [Pairs -> Nat] /\ Joined(edges) = {}
      BY <3>1 DEF Joined
    <3> QED
      BY <3>2 DEF GraphInit
  <2> QED
    BY <2>1, <2>2, <2>3, <2>4, <2>5 DEF GraphTypeOK
<1>2. Nodes = {} /\ \A s \in Shares : number[s] = Missing
  BY DEF GraphInit, Nodes
<1>3. Joined(edges) = {} /\ Stands = {} /\ surviving = {}
  BY DEF GraphInit, Joined, Stands
<1> QED
  BY <1>1, <1>2, <1>3 DEF GraphInv, MapsAgree, EdgesDeclared

\* For any mounts: until a removal moves a node, the graph tells exactly the
\* dependencies asked for, and those whose parallel edges outlived their removal, and
\* every startup order respects them (monitoring/dependency.rs:70-284).
THEOREM OrdersAreSound == GraphSpec => []SoundUntilRenumbered
<1>1. GraphInv => SoundUntilRenumbered
  <2> SUFFICES ASSUME GraphInv, ~renumbered
               PROVE  /\ \A s \in Shares : number[s] # Missing =>
                           /\ DependenciesOf(s) = {d[1] : d \in {d \in Stands : d[2] = s}}
                           /\ DependentsOf(s) = {d[2] : d \in {d \in Stands : d[1] = s}}
                      /\ \A q \in StartupSequences : \A d \in Stands :
                           \E i, j \in DOMAIN q : q[i] = d[1] /\ q[j] = d[2] /\ i < j
    BY DEF SoundUntilRenumbered, Stands, GraphInv, EdgesDeclared
  <2>1. MapsAgree /\ EdgesDeclared /\ GraphTypeOK /\ size \in Nat
    BY SharesCount DEF GraphInv, GraphTypeOK
  <2>2. \A d \in Stands : /\ d[1] \in Shares /\ d[2] \in Shares
                          /\ number[d[1]] \in Nodes /\ name[number[d[1]]] = d[1]
                          /\ number[d[2]] \in Nodes /\ name[number[d[2]]] = d[2]
    BY <2>1 DEF MapsAgree, EdgesDeclared, GraphTypeOK, Stands
  <2>3. ASSUME NEW s \in Shares, number[s] # Missing
        PROVE  /\ DependenciesOf(s) = {d[1] : d \in {d \in Stands : d[2] = s}}
               /\ DependentsOf(s) = {d[2] : d \in {d \in Stands : d[1] = s}}
    <3>1. name[number[s]] = s
      BY <2>1, <2>3 DEF MapsAgree
    <3>2. \A d \in Stands : /\ number[d[1]] = number[s] <=> d[1] = s
                            /\ number[d[2]] = number[s] <=> d[2] = s
      BY <2>2, <3>1
    <3>3. Joined(edges) = {<<number[d[1]], number[d[2]]>> : d \in Stands}
      BY <2>1 DEF EdgesDeclared
    <3> DEFINE before == {d[1] : d \in {d \in Stands : d[2] = s}}
               after == {d[2] : d \in {d \in Stands : d[1] = s}}
    <3>4. DependenciesOf(s) = before
      <4>1. \A x \in DependenciesOf(s) : \E d \in Stands : d[2] = s /\ x = d[1]
        BY <2>2, <3>2, <3>3 DEF DependenciesOf
      <4>2. ASSUME NEW d \in Stands, d[2] = s PROVE d[1] \in DependenciesOf(s)
        <5>1. <<number[d[1]], number[d[2]]>> \in Joined(edges)
          BY <3>3
        <5> QED
          BY <2>2, <4>2, <5>1 DEF DependenciesOf
      <4> QED
        BY <4>1, <4>2
    <3>5. DependentsOf(s) = after
      <4>1. \A x \in DependentsOf(s) : \E d \in Stands : d[1] = s /\ x = d[2]
        BY <2>2, <3>2, <3>3 DEF DependentsOf
      <4>2. ASSUME NEW d \in Stands, d[1] = s PROVE d[2] \in DependentsOf(s)
        <5>1. <<number[d[1]], number[d[2]]>> \in Joined(edges)
          BY <3>3
        <5> QED
          BY <2>2, <4>2, <5>1 DEF DependentsOf
      <4> QED
        BY <4>1, <4>2
    <3> QED
      BY <3>4, <3>5
  <2>4. ASSUME NEW q \in StartupSequences, NEW d \in Stands
        PROVE  \E i, j \in DOMAIN q : q[i] = d[1] /\ q[j] = d[2] /\ i < j
    <3>1. PICK o \in Orders : q = [i \in Named(o) |-> name[o[i]]]
      BY DEF StartupSequences
    <3>2. PICK i \in DOMAIN o : o[i] = number[d[1]]
      BY <2>1, <2>2, OrdersAreFull
    <3>3. PICK j \in DOMAIN o : o[j] = number[d[2]]
      BY <2>1, <2>2, OrdersAreFull
    <3>4. i \in Named(o) /\ j \in Named(o)
      BY <2>2, <3>2, <3>3, GraphAssumption DEF Named
    <3>5. <<o[i], o[j]>> \in Joined(edges)
      BY <2>1, <3>2, <3>3 DEF EdgesDeclared
    <3>6. i < j
      BY <3>5 DEF Orders
    <3> QED
      BY <2>2, <3>1, <3>2, <3>3, <3>4, <3>6
  <2> QED
    BY <2>3, <2>4
<1> QED
  BY <1>1, GraphInitInv, GraphStep, PTL DEF GraphSpec

-----------------------------------------------------------------------------
(* CredentialBackup: what is listed can be restored, and what is kept.          *)

BackupStates == {"idle", "list", "sort", "clean", "forget"}
BackupJobs == [at: BackupStates, on: Nat, doomed: SUBSET Nat]
Followers(b) == {c \in Made : made[c] = made[b] /\ c > b}

BackupTypes ==
  /\ \E n \in Nat : made \in [1..n -> Strategies]
  /\ listing \subseteq Made /\ stored \subseteq Made /\ undeleted \subseteq Made
  /\ job \in [BackupTasks -> BackupJobs]

\* A backup that is yet to be listed is no other task's, and nobody can delete it.
ListInv ==
  /\ \A t \in BackupTasks : job[t].at = "list" =>
       /\ job[t].on \in Made /\ job[t].on \notin listing
       /\ made[job[t].on] = "local" => job[t].on \in stored
  /\ \A s, t \in BackupTasks :
       job[s].at = "list" /\ job[t].at = "list" /\ job[s].on = job[t].on => s = t
  /\ \A t \in BackupTasks : job[t].at = "idle" => job[t] = Off
  /\ ListedIsRestorable

DoomedInv ==
  \A t \in BackupTasks : \A b \in job[t].doomed :
    b \in Made /\ Cardinality(Followers(b)) >= MaxVersions

\* What is too old is somebody's to find or to delete, unless deleting it failed.
Handles(t, b) ==
  \/ job[t].at = "sort"
  \/ job[t].at \in {"clean", "forget"} /\ b \in job[t].doomed
  \/ job[t].at = "forget" /\ job[t].on = b

CleanInv == \A b \in TooOld : b \in undeleted \/ \E t \in BackupTasks : Handles(t, b)

BackupInv == BackupTypes /\ ListInv /\ DoomedInv /\ CleanInv

\* Every set of naturals has a least element.
LEMMA LeastNumber ==
  ASSUME NEW S, S \subseteq Nat, S # {}
  PROVE  \E m \in S : \A c \in S : m <= c
<1> DEFINE R == {ss \in Nat \X Nat : ss[1] < ss[2]}
<1>1. IsWellFoundedOn(R, Nat)
  BY NatLessThanWellFounded, Zenon DEF OpToRel
<1>2. PICK m \in S : \A c \in S : <<c, m>> \notin R
  <2> HIDE DEF R
  <2> QED
    BY <1>1, WFMin
<1>3. \A c \in S : m <= c
  <2> TAKE c \in S
  <2>1. <<c, m>> \in Nat \X Nat /\ <<c, m>> \notin R
    BY <1>2
  <2>2. ~(c < m)
    BY <2>1
  <2> QED
    BY <2>2
<1> QED
  BY <1>3

LEMMA MadeFinite ==
  ASSUME BackupTypes
  PROVE  IsFiniteSet(Made) /\ Made \subseteq Nat /\ IsFiniteSet(listing)
<1>1. PICK n \in Nat : made \in [1..n -> Strategies]
  BY DEF BackupTypes
<1>2. Made = 1..n
  BY <1>1 DEF Made
<1>3. IsFiniteSet(1..n)
  BY FS_Interval
<1>4. IsFiniteSet(Made) /\ listing \in SUBSET Made
  BY <1>2, <1>3 DEF BackupTypes
<1>5. IsFiniteSet(listing)
  BY <1>4, FS_Subset
<1> QED
  BY <1>2, <1>4, <1>5

\* A larger set has no fewer elements.
LEMMA NoFewer ==
  ASSUME NEW S, NEW T, IsFiniteSet(T), S \subseteq T, NEW n \in Nat, Cardinality(S) >= n
  PROVE  Cardinality(T) >= n
<1>1. Cardinality(S) \in Nat /\ Cardinality(T) \in Nat /\ Cardinality(S) <= Cardinality(T)
  BY FS_Subset, FS_CardinalityType
<1> QED
  BY <1>1

LEMMA JobSet ==
  ASSUME BackupTypes, NEW t \in BackupTasks, NEW r \in BackupJobs,
         job' = [job EXCEPT ![t] = r]
  PROVE  /\ job' \in [BackupTasks -> BackupJobs]
         /\ \A s \in BackupTasks : job'[s] = IF s = t THEN r ELSE job[s]
  BY DEF BackupTypes

LEMMA CleanRecord ==
  ASSUME NEW j \in BackupJobs
  PROVE  [j EXCEPT !.at = "clean", !.on = 0]
           = [at |-> "clean", on |-> 0, doomed |-> j.doomed]
<1> DEFINE f == [j EXCEPT !.at = "clean", !.on = 0]
<1>1. f \in BackupJobs
  BY DEF BackupJobs, BackupStates
<1>2. f.at = "clean" /\ f.on = 0 /\ f.doomed = j.doomed
  BY DEF BackupJobs
<1> HIDE DEF f
<1>3. f = [at |-> f.at, on |-> f.on, doomed |-> f.doomed]
  BY <1>1 DEF BackupJobs
<1> QED
  BY <1>2, <1>3 DEF f

LEMMA OffRecord == Off \in BackupJobs /\ Off.at = "idle" /\ Off.doomed = {}
  BY DEF Off, BackupJobs, BackupStates

LEMMA BackupInitInv == BackupInit => BackupInv
<1> SUFFICES ASSUME BackupInit PROVE BackupInv
  OBVIOUS
<1>1. \A t \in BackupTasks : job[t] = Off
  BY DEF BackupInit
<1>2. made \in [1..0 -> Strategies]
  BY DEF BackupInit
<1>3. BackupTypes
  BY <1>2, OffRecord DEF BackupInit, BackupTypes
<1>4. ListInv
  BY <1>1, OffRecord DEF BackupInit, ListInv, ListedIsRestorable
<1>5. DoomedInv
  BY <1>1, OffRecord DEF DoomedInv
<1>6. CleanInv
  BY DEF BackupInit, CleanInv, TooOld
<1> QED
  BY <1>3, <1>4, <1>5, <1>6 DEF BackupInv

\* What a task with nothing to list or to forget does leaves what is listed alone.
LEMMA ListStays ==
  ASSUME BackupTypes, ListInv, UNCHANGED <<made, listing, stored>>, undeleted' \subseteq Made,
         NEW t \in BackupTasks, NEW r \in BackupJobs, job' = [job EXCEPT ![t] = r],
         job[t].at # "forget", r.at # "list", r.at = "idle" => r = Off
  PROVE  BackupTypes' /\ ListInv'
<1>1. /\ job' \in [BackupTasks -> BackupJobs]
      /\ \A s \in BackupTasks : job'[s] = IF s = t THEN r ELSE job[s]
  BY JobSet
<1>2. BackupTypes'
  BY <1>1 DEF BackupTypes, Made
<1>3. ListedIsRestorable'
  BY <1>1 DEF ListInv, ListedIsRestorable
<1> QED
  BY <1>1, <1>2, <1>3 DEF ListInv, Made

LEMMA DoomedStays ==
  ASSUME DoomedInv, made' = made,
         \A s \in BackupTasks : job'[s].doomed \subseteq job[s].doomed
  PROVE  DoomedInv'
  BY DEF DoomedInv, Followers, Made

LEMMA TooOldStays ==
  ASSUME UNCHANGED <<made, listing>>
  PROVE  TooOld' = TooOld
  BY DEF TooOld, SameStrategy

\* A new backup is followed by none, and follows all of its strategy.
LEMMA StoreBackupInv ==
  ASSUME BackupInv, NEW t \in BackupTasks, NEW strategy \in Strategies,
         StoreBackup(t, strategy)
  PROVE  BackupInv'
<1> USE DEF BackupInv
<1>1. PICK n \in Nat : made \in [1..n -> Strategies]
  BY DEF BackupTypes
<1>2. Made = 1..n /\ Cardinality(Made) = n
  BY <1>1, FS_Interval DEF Made
<1> DEFINE b == n + 1
           r == [at |-> "list", on |-> b, doomed |-> {}]
<1>3. /\ job[t] = Off
      /\ made' = [c \in 1..b |-> IF c = b THEN strategy ELSE made[c]]
      /\ stored' = IF strategy = "local" THEN stored \cup {b} ELSE stored
      /\ job' = [job EXCEPT ![t] = r] /\ UNCHANGED <<listing, undeleted>>
  BY <1>2 DEF StoreBackup
<1>4. /\ made' \in [1..b -> Strategies] /\ b \in Nat /\ b \notin Made /\ made'[b] = strategy
      /\ \A c \in Made : made'[c] = made[c]
  BY <1>1, <1>2, <1>3
<1>5. Made' = 1..b /\ Made' = Made \cup {b}
  BY <1>2, <1>4 DEF Made
<1>6. r \in BackupJobs
  BY <1>4 DEF BackupJobs, BackupStates
<1>7. /\ job' \in [BackupTasks -> BackupJobs]
      /\ \A s \in BackupTasks : job'[s] = IF s = t THEN r ELSE job[s]
  BY <1>3, <1>6, JobSet
<1>8. BackupTypes'
  BY <1>3, <1>4, <1>5, <1>7 DEF BackupTypes
<1>9. ListInv'
  <2>1. listing \subseteq Made /\ stored \subseteq Made /\ stored \subseteq stored'
        /\ stored' \subseteq stored \cup {b}
    BY <1>3 DEF BackupTypes
  <2>2. \A s \in BackupTasks : job'[s].at = "list" =>
          /\ job'[s].on \in Made' /\ job'[s].on \notin listing'
          /\ made'[job'[s].on] = "local" => job'[s].on \in stored'
    <3> SUFFICES ASSUME NEW s \in BackupTasks, job'[s].at = "list"
                 PROVE  /\ job'[s].on \in Made' /\ job'[s].on \notin listing'
                        /\ made'[job'[s].on] = "local" => job'[s].on \in stored'
      OBVIOUS
    <3>1. CASE s = t
      BY <1>3, <1>4, <1>5, <1>7, <2>1, <3>1
    <3>2. CASE s # t
      <4>1. job'[s] = job[s]
        BY <1>7, <3>2
      <4> QED
        BY <1>3, <1>4, <1>5, <2>1, <4>1 DEF ListInv
    <3> QED
      BY <3>1, <3>2
  <2>3. \A s, u \in BackupTasks :
          job'[s].at = "list" /\ job'[u].at = "list" /\ job'[s].on = job'[u].on => s = u
    BY <1>4, <1>7 DEF ListInv
  <2>4. \A s \in BackupTasks : job'[s].at = "idle" => job'[s] = Off
    BY <1>7 DEF ListInv
  <2>5. ListedIsRestorable'
    <3> SUFFICES ASSUME NEW c \in listing, made'[c] = "local", c \notin stored'
                 PROVE  \E s \in BackupTasks : job'[s].at = "forget" /\ job'[s].on = c
      BY <1>3 DEF ListedIsRestorable
    <3>1. PICK s \in BackupTasks : job[s].at = "forget" /\ job[s].on = c
      BY <1>4, <2>1 DEF ListInv, ListedIsRestorable
    <3> QED
      BY <1>3, <1>7, <3>1, OffRecord
  <2> QED
    BY <2>2, <2>3, <2>4, <2>5 DEF ListInv
<1>10. DoomedInv'
  <2> SUFFICES ASSUME NEW s \in BackupTasks, NEW c \in job'[s].doomed
               PROVE  c \in Made' /\ Cardinality(Followers(c)') >= MaxVersions
    BY DEF DoomedInv
  <2>1. c \in Made /\ Cardinality(Followers(c)) >= MaxVersions
    BY <1>7 DEF DoomedInv
  <2>2. Followers(c) \subseteq Followers(c)'
    BY <1>4, <1>5, <2>1 DEF Followers
  <2>3. IsFiniteSet(Followers(c)')
    <3>1. IsFiniteSet(1..b)
      BY <1>4, FS_Interval
    <3>2. Followers(c)' \in SUBSET (1..b)
      BY <1>5 DEF Followers
    <3> QED
      BY <3>1, <3>2, FS_Subset
  <2> QED
    BY <1>5, <2>1, <2>2, <2>3, NoFewer, BackupAssumption
<1>11. CleanInv'
  <2>1. \A c \in listing : SameStrategy(c)' = SameStrategy(c)
    BY <1>3, <1>4 DEF SameStrategy, BackupTypes
  <2>2. TooOld' = TooOld
    BY <1>3, <2>1 DEF TooOld
  <2>3. \A s \in BackupTasks, c \in TooOld : Handles(s, c) => Handles(s, c)'
    BY <1>3, <1>7, OffRecord DEF Handles
  <2> QED
    BY <1>3, <2>2, <2>3 DEF CleanInv
<1> QED
  BY <1>8, <1>9, <1>10, <1>11

LEMMA ListBackupInv ==
  ASSUME BackupInv, NEW t \in BackupTasks, ListBackup(t) PROVE BackupInv'
<1> USE DEF BackupInv
<1>1. /\ job[t].at = "list" /\ listing' = listing \cup {job[t].on}
      /\ job' = [job EXCEPT ![t].at = "sort"] /\ UNCHANGED <<made, stored, undeleted>>
  BY DEF ListBackup
<1>2. /\ job' \in [BackupTasks -> BackupJobs]
      /\ \A s \in BackupTasks \ {t} : job'[s] = job[s]
      /\ job'[t].at = "sort" /\ job'[t].doomed = job[t].doomed
  BY <1>1 DEF BackupTypes, BackupJobs, BackupStates
<1>3. job[t].on \in Made /\ (made[job[t].on] = "local" => job[t].on \in stored)
  BY <1>1 DEF ListInv
<1>4. BackupTypes'
  BY <1>1, <1>2, <1>3 DEF BackupTypes, Made
<1>5. ListedIsRestorable'
  <2> SUFFICES ASSUME NEW b \in listing, made[b] = "local", b \notin stored
               PROVE  \E s \in BackupTasks : job'[s].at = "forget" /\ job'[s].on = b
    BY <1>1, <1>3 DEF ListedIsRestorable
  <2>1. PICK s \in BackupTasks : job[s].at = "forget" /\ job[s].on = b
    BY DEF ListInv, ListedIsRestorable
  <2> QED
    BY <1>1, <1>2, <2>1
<1>6. ListInv'
  BY <1>1, <1>2, <1>5 DEF ListInv, Made
<1>7. DoomedInv'
  BY <1>1, <1>2, DoomedStays
<1>8. CleanInv'
  BY <1>2 DEF CleanInv, Handles
<1> QED
  BY <1>4, <1>6, <1>7, <1>8

\* What follows a backup in the list follows it among those made.
LEMMA SortBackupsInv ==
  ASSUME BackupInv, NEW t \in BackupTasks, SortBackups(t) PROVE BackupInv'
<1> USE DEF BackupInv
<1> DEFINE r == [at |-> "clean", on |-> 0, doomed |-> TooOld]
<1>1. /\ job[t].at = "sort" /\ job' = [job EXCEPT ![t] = r]
      /\ UNCHANGED <<made, listing, stored, undeleted>>
  BY DEF SortBackups
<1>2. TooOld \subseteq Made /\ Made \subseteq Nat
  BY MadeFinite DEF TooOld, BackupTypes
<1>3. r \in BackupJobs
  BY <1>2 DEF BackupJobs, BackupStates
<1>4. \A s \in BackupTasks : job'[s] = IF s = t THEN r ELSE job[s]
  BY <1>1, <1>3, JobSet
<1>5. BackupTypes' /\ ListInv'
  BY <1>1, <1>3, ListStays DEF BackupTypes
<1>6. DoomedInv'
  <2>1. ASSUME NEW b \in TooOld PROVE Cardinality(Followers(b)) >= MaxVersions
    <3>1. {c \in SameStrategy(b) : c > b} \subseteq Followers(b)
      BY DEF SameStrategy, Followers, BackupTypes
    <3>2. IsFiniteSet(Followers(b))
      BY MadeFinite, FS_Subset DEF Followers
    <3>3. Cardinality({c \in SameStrategy(b) : c > b}) >= MaxVersions
      BY DEF TooOld
    <3> QED
      BY <3>1, <3>2, <3>3, NoFewer, BackupAssumption
  <2>2. Made' = Made /\ \A b : Followers(b)' = Followers(b)
    BY <1>1 DEF Followers, Made
  <2>3. \A s \in BackupTasks : \A b \in job'[s].doomed : b \in job[s].doomed \/ b \in TooOld
    BY <1>4
  <2> QED
    BY <1>2, <2>1, <2>2, <2>3 DEF DoomedInv
<1>7. CleanInv'
  <2>1. \A b \in TooOld : Handles(t, b)'
    BY <1>4 DEF Handles
  <2> QED
    BY <1>1, <2>1, TooOldStays DEF CleanInv
<1> QED
  BY <1>5, <1>6, <1>7

LEMMA CleanEndsInv ==
  ASSUME BackupInv, NEW t \in BackupTasks, CleanEnds(t) PROVE BackupInv'
<1> USE DEF BackupInv
<1>1. /\ job[t].at = "clean" /\ job[t].doomed = {} /\ job' = [job EXCEPT ![t] = Off]
      /\ UNCHANGED <<made, listing, stored, undeleted>>
  BY DEF CleanEnds
<1>2. \A s \in BackupTasks : job'[s] = IF s = t THEN Off ELSE job[s]
  BY <1>1, JobSet, OffRecord
<1>3. BackupTypes' /\ ListInv'
  BY <1>1, ListStays, OffRecord DEF BackupTypes
<1>4. DoomedInv'
  BY <1>1, <1>2, OffRecord, DoomedStays
<1>5. CleanInv'
  <2>1. \A s \in BackupTasks, b \in TooOld : Handles(s, b) => Handles(s, b)'
    BY <1>1, <1>2 DEF Handles
  <2> QED
    BY <1>1, <2>1, TooOldStays DEF CleanInv
<1> QED
  BY <1>3, <1>4, <1>5

LEMMA DeleteDataInv ==
  ASSUME BackupInv, NEW t \in BackupTasks, NEW b \in Made, DeleteData(t, b)
  PROVE  BackupInv'
<1> USE DEF BackupInv
<1>0. /\ \/ job[t].at = "clean" /\ b \in job[t].doomed
         \/ job[t] = Off /\ b \in listing
      /\ UNCHANGED <<made, listing, undeleted>>
  BY DEF DeleteData
<1>a. b \in Nat /\ job[t].at \in {"clean", "idle"} /\ job[t] \in BackupJobs
  BY <1>0, MadeFinite, OffRecord DEF BackupTypes
<1> DEFINE r == [at |-> "forget", on |-> b, doomed |-> job[t].doomed \ {b}]
<1>1. stored' = stored \ {b} /\ job' = [job EXCEPT ![t] = r] /\ b \in listing
  BY DEF DeleteData, Deletable
<1>2. r \in BackupJobs
  BY <1>a DEF BackupJobs, BackupStates
<1>3. /\ job' \in [BackupTasks -> BackupJobs]
      /\ \A s \in BackupTasks : job'[s] = IF s = t THEN r ELSE job[s]
  BY <1>1, <1>2, JobSet
<1>4. BackupTypes'
  BY <1>0, <1>1, <1>3 DEF BackupTypes, Made
<1>5. ListedIsRestorable'
  <2> SUFFICES ASSUME NEW c \in listing, made[c] = "local", c \notin stored'
               PROVE  \E s \in BackupTasks : job'[s].at = "forget" /\ job'[s].on = c
    BY <1>0 DEF ListedIsRestorable
  <2>1. CASE c = b
    BY <1>3, <2>1
  <2>2. CASE c # b
    <3>1. PICK s \in BackupTasks : job[s].at = "forget" /\ job[s].on = c
      BY <1>1, <2>2 DEF ListInv, ListedIsRestorable
    <3> QED
      BY <1>a, <1>3, <3>1
  <2> QED
    BY <2>1, <2>2
<1>6. ListInv'
  <2>1. \A s \in BackupTasks : job'[s].at = "list" =>
          s # t /\ job'[s] = job[s] /\ job[s].on # b
    BY <1>1, <1>3 DEF ListInv
  <2>2. \A s \in BackupTasks : job'[s].at = "idle" => job'[s] = Off
    BY <1>3 DEF ListInv
  <2> QED
    BY <1>0, <1>1, <1>5, <2>1, <2>2 DEF ListInv, Made
<1>7. DoomedInv'
  BY <1>0, <1>3, DoomedStays
<1>8. CleanInv'
  <2>1. \A s \in BackupTasks, c \in TooOld : Handles(s, c) => Handles(s, c)'
    BY <1>0, <1>a, <1>3, OffRecord DEF Handles
  <2> QED
    BY <1>0, <2>1, TooOldStays DEF CleanInv
<1> QED
  BY <1>4, <1>6, <1>7, <1>8

\* A clean-up that cannot delete leaves what another task will strike off the list,
\* or what is counted as not deleted.
LEMMA DeleteFailsInv ==
  ASSUME BackupInv, NEW t \in BackupTasks, NEW b \in Made, DeleteFails(t, b)
  PROVE  BackupInv'
<1> USE DEF BackupInv
<1>0. /\ job[t].at = "clean" /\ b \in job[t].doomed
      /\ UNCHANGED <<made, listing, stored>>
      /\ undeleted' = IF Deletable(b) THEN undeleted \cup {b} ELSE undeleted
  BY DEF DeleteFails
<1>a. b \in Nat /\ job[t] \in BackupJobs
  BY MadeFinite DEF BackupTypes
<1> DEFINE r == [at |-> job[t].at, on |-> job[t].on, doomed |-> job[t].doomed \ {b}]
<1>1. stored' = stored /\ job' = [job EXCEPT ![t] = r]
  <2>1. job' = [job EXCEPT ![t].doomed = job[t].doomed \ {b}] /\ stored' = stored
    BY DEF DeleteFails
  <2>2. [job[t] EXCEPT !.doomed = job[t].doomed \ {b}] = r
    BY <1>a DEF BackupJobs
  <2> QED
    BY <2>1, <2>2
<1>2. r \in BackupJobs
  BY <1>a DEF BackupJobs
<1>3. \A s \in BackupTasks : job'[s] = IF s = t THEN r ELSE job[s]
  BY <1>1, <1>2, JobSet
<1>4. r.at = "idle" => r = Off
  BY <1>0
<1>5. BackupTypes' /\ ListInv'
  <2>1. undeleted' \subseteq Made
    BY <1>0 DEF BackupTypes
  <2> QED
    BY <1>0, <1>1, <1>2, <1>4, <2>1, ListStays
<1>6. DoomedInv'
  BY <1>0, <1>3, DoomedStays
<1>7. CleanInv'
  <2>1. b \in TooOld => b \in undeleted' \/ \E s \in BackupTasks : Handles(s, b)'
    <3>1. CASE Deletable(b)
      BY <1>0, <3>1
    <3>2. CASE b \in TooOld /\ ~Deletable(b)
      <4>1. PICK s \in BackupTasks : job[s].at = "forget" /\ job[s].on = b
        BY <3>2 DEF Deletable, TooOld, ListInv, ListedIsRestorable
      <4> QED
        BY <1>0, <1>3, <4>1 DEF Handles
    <3> QED
      BY <3>1, <3>2
  <2>2. \A c \in TooOld : c # b =>
          c \in undeleted' \/ \E s \in BackupTasks : Handles(s, c)'
    <3> SUFFICES ASSUME NEW c \in TooOld, c # b, c \notin undeleted
                 PROVE  \E s \in BackupTasks : Handles(s, c)'
      BY <1>0
    <3>1. PICK s \in BackupTasks : Handles(s, c)
      BY DEF CleanInv
    <3> QED
      BY <1>3, <3>1 DEF Handles
  <2> QED
    BY <1>0, <2>1, <2>2, TooOldStays DEF CleanInv
<1> QED
  BY <1>5, <1>6, <1>7

LEMMA ForgetBackupInv ==
  ASSUME BackupInv, NEW t \in BackupTasks, ForgetBackup(t) PROVE BackupInv'
<1> USE DEF BackupInv
<1> DEFINE r == IF job[t].doomed = {} THEN Off
                ELSE [at |-> "clean", on |-> 0, doomed |-> job[t].doomed]
<1>a. job[t] \in BackupJobs
  BY DEF BackupTypes
<1>1. /\ job[t].at = "forget" /\ listing' = listing \ {job[t].on}
      /\ job' = [job EXCEPT ![t] = r] /\ UNCHANGED <<made, stored>>
      /\ undeleted' = undeleted \ {job[t].on}
  <2>1. [job[t] EXCEPT !.at = "clean", !.on = 0]
          = [at |-> "clean", on |-> 0, doomed |-> job[t].doomed]
    BY <1>a, CleanRecord
  <2>2. /\ job[t].at = "forget" /\ listing' = listing \ {job[t].on}
        /\ job' = [job EXCEPT ![t] = IF job[t].doomed = {} THEN Off
                                     ELSE [job[t] EXCEPT !.at = "clean", !.on = 0]]
        /\ UNCHANGED <<made, stored>> /\ undeleted' = undeleted \ {job[t].on}
    BY DEF ForgetBackup
  <2> QED
    BY <2>1, <2>2
<1>2. /\ r \in BackupJobs /\ r.doomed = job[t].doomed
      /\ r.at = IF job[t].doomed = {} THEN "idle" ELSE "clean"
  BY <1>a, OffRecord DEF BackupJobs, BackupStates
<1>3. /\ job' \in [BackupTasks -> BackupJobs]
      /\ \A s \in BackupTasks : job'[s] = IF s = t THEN r ELSE job[s]
  BY <1>1, <1>2, JobSet
<1>4. BackupTypes'
  BY <1>1, <1>3 DEF BackupTypes, Made
<1>5. ListInv'
  <2>1. ListedIsRestorable'
    <3> SUFFICES ASSUME NEW c \in listing, c # job[t].on, made[c] = "local", c \notin stored
                 PROVE  \E s \in BackupTasks : job'[s].at = "forget" /\ job'[s].on = c
      BY <1>1 DEF ListedIsRestorable
    <3>1. PICK s \in BackupTasks : job[s].at = "forget" /\ job[s].on = c
      BY DEF ListInv, ListedIsRestorable
    <3> QED
      BY <1>3, <3>1
  <2>2. \A s \in BackupTasks : job'[s].at = "list" => s # t /\ job'[s] = job[s]
    BY <1>2, <1>3
  <2>3. \A s \in BackupTasks : job'[s].at = "idle" => job'[s] = Off
    BY <1>2, <1>3 DEF ListInv
  <2> QED
    BY <1>1, <2>1, <2>2, <2>3 DEF ListInv, Made
<1>6. DoomedInv'
  BY <1>1, <1>2, <1>3, DoomedStays
<1>7. CleanInv'
  <2> SUFFICES ASSUME NEW c \in TooOld' PROVE c \in undeleted' \/ \E s \in BackupTasks : Handles(s, c)'
    BY DEF CleanInv
  <2>1. c \in listing /\ c # job[t].on
    BY <1>1 DEF TooOld
  <2>2. {d \in SameStrategy(c)' : d > c} \subseteq {d \in SameStrategy(c) : d > c}
    BY <1>1 DEF SameStrategy
  <2>3. IsFiniteSet({d \in SameStrategy(c) : d > c})
    <3>1. {d \in SameStrategy(c) : d > c} \in SUBSET listing
      BY DEF SameStrategy
    <3> QED
      BY <3>1, MadeFinite, FS_Subset
  <2>4. Cardinality({d \in SameStrategy(c)' : d > c}) >= MaxVersions
    BY DEF TooOld
  <2>5. Cardinality({d \in SameStrategy(c) : d > c}) >= MaxVersions
    BY <2>2, <2>3, <2>4, NoFewer, BackupAssumption
  <2>6. c \in undeleted \/ \E s \in BackupTasks : Handles(s, c)
    BY <2>1, <2>5 DEF TooOld, CleanInv
  <2> QED
    BY <1>1, <1>2, <1>3, <2>1, <2>6 DEF Handles
<1> QED
  BY <1>4, <1>5, <1>6, <1>7

LEMMA BackupRestartInv ==
  ASSUME BackupInv, BackupRestart PROVE BackupInv'
<1> USE DEF BackupInv
<1>1. /\ listing' = {} /\ undeleted' = {} /\ UNCHANGED <<made, stored>>
      /\ job' = [t \in BackupTasks |-> Off] /\ \A t \in BackupTasks : job'[t] = Off
  BY DEF BackupRestart
<1>2. BackupTypes'
  BY <1>1, OffRecord DEF BackupTypes, Made
<1>3. ListInv'
  BY <1>1, OffRecord DEF ListInv, ListedIsRestorable
<1>4. DoomedInv' /\ CleanInv'
  BY <1>1, OffRecord DEF DoomedInv, CleanInv, TooOld
<1> QED
  BY <1>2, <1>3, <1>4

\* With nobody left to handle it nothing is too old but what was not deleted: the
\* oldest of the others of a strategy is followed by fewer than the limit.
LEMMA QuietKeepsFew ==
  ASSUME BackupTypes, CleanInv, \A t \in BackupTasks : job[t] = Off, NEW b \in listing
  PROVE  Cardinality(SameStrategy(b) \ undeleted) <= MaxVersions
<1> DEFINE S == SameStrategy(b) \ undeleted
<1>1. IsFiniteSet(S) /\ S \subseteq Nat /\ S \subseteq listing
  <2>1. S \in SUBSET listing
    BY DEF SameStrategy
  <2> QED
    BY <2>1, MadeFinite, FS_Subset DEF BackupTypes
<1>2. CASE S = {}
  <2>1. Cardinality(S) = 0
    BY <1>2, FS_EmptySet
  <2> QED
    BY <2>1, BackupAssumption
<1>3. CASE S # {}
  <2>1. PICK m \in S : \A c \in S : m <= c
    BY <1>1, <1>3, LeastNumber
  <2> DEFINE T == {c \in SameStrategy(m) : c > m}
  <2>2. S \subseteq SameStrategy(m) /\ m \in listing /\ m \notin undeleted
    BY <2>1 DEF SameStrategy
  <2>3. S \ {m} \subseteq T
    BY <1>1, <2>1, <2>2
  <2>4. m \notin TooOld
    BY <2>2, OffRecord DEF CleanInv, Handles
  <2>5. ~(Cardinality(T) >= MaxVersions)
    BY <2>2, <2>4 DEF TooOld
  <2>6. IsFiniteSet(T)
    <3>1. T \in SUBSET listing
      BY DEF SameStrategy
    <3> QED
      BY <3>1, MadeFinite, FS_Subset
  <2>7. ~(Cardinality(S \ {m}) >= MaxVersions)
    <3> HIDE DEF S, T
    <3> QED
      BY <2>3, <2>5, <2>6, NoFewer, BackupAssumption
  <2>8. Cardinality(S \ {m}) = Cardinality(S) - 1 /\ Cardinality(S) \in Nat
    BY <1>1, <2>1, FS_RemoveElement, FS_CardinalityType
  <2> QED
    BY <2>7, <2>8, BackupAssumption
<1> QED
  BY <1>2, <1>3

LEMMA BackupStep == BackupInv /\ [BackupNext]_BackupVars => BackupInv'
<1> SUFFICES ASSUME BackupInv, [BackupNext]_BackupVars PROVE BackupInv'
  OBVIOUS
<1>1. ASSUME NEW t \in BackupTasks, NEW strategy \in Strategies, StoreBackup(t, strategy)
      PROVE  BackupInv'
  BY <1>1, StoreBackupInv
<1>2. ASSUME NEW t \in BackupTasks, \/ ListBackup(t) \/ SortBackups(t)
                                    \/ CleanEnds(t) \/ ForgetBackup(t)
      PROVE  BackupInv'
  BY <1>2, ListBackupInv, SortBackupsInv, CleanEndsInv, ForgetBackupInv
<1>3. ASSUME NEW t \in BackupTasks, NEW b \in Made, DeleteData(t, b) PROVE BackupInv'
  BY <1>3, DeleteDataInv
<1>6. ASSUME NEW t \in BackupTasks, NEW b \in Made, DeleteFails(t, b) PROVE BackupInv'
  BY <1>6, DeleteFailsInv
<1>4. CASE BackupRestart
  BY <1>4, BackupRestartInv
<1>5. CASE UNCHANGED BackupVars
  <2>1. UNCHANGED <<made, listing, stored, job, undeleted>>
    BY <1>5 DEF BackupVars
  <2>2. BackupTypes' /\ ListInv'
    BY <2>1 DEF BackupInv, BackupTypes, ListInv, ListedIsRestorable, Made
  <2>3. DoomedInv'
    BY <2>1, DoomedStays DEF BackupInv
  <2>4. CleanInv'
    BY <2>1, TooOldStays DEF BackupInv, CleanInv, Handles
  <2> QED
    BY <2>2, <2>3, <2>4 DEF BackupInv
<1> QED
  BY <1>1, <1>2, <1>3, <1>4, <1>5, <1>6 DEF BackupNext

\* For any number of tasks, versions and backups: what is listed can be restored, a
\* clean-up dooms only what enough later backups replace, and when all is quiet no
\* strategy has more than the limit, but for those whose files a clean-up could not
\* remove (credential_backup.rs: create, clean up, delete).
THEOREM BackupsAreKept == BackupSpec => []RetentionHolds
<1>1. BackupInv => RetentionHolds
  <2> SUFFICES ASSUME BackupInv PROVE RetentionHolds
    OBVIOUS
  <2>1. ListedIsRestorable
    BY DEF BackupInv, ListInv
  <2>2. \A t \in BackupTasks : \A b \in job[t].doomed :
          Cardinality({c \in Made : made[c] = made[b] /\ c > b}) >= MaxVersions
    BY DEF BackupInv, DoomedInv, Followers
  <2>3. (\A t \in BackupTasks : job[t] = Off) =>
          \A b \in listing : Cardinality(SameStrategy(b) \ undeleted) <= MaxVersions
    BY QuietKeepsFew DEF BackupInv
  <2> QED
    BY <2>1, <2>2, <2>3 DEF RetentionHolds
<1> QED
  BY <1>1, BackupStep, BackupInitInv, PTL DEF BackupSpec

-----------------------------------------------------------------------------
(* AuditLog: the chain of hashes and the rotation of the files.                 *)

AuditStates == {"idle", "chain", "buffer", "open", "write", "check", "close",
                "rename"}

AuditTypes ==
  /\ lastHash \in Nat /\ previous \in Seq(Nat)
  /\ logged \in Seq(SUBSET Nat)
  /\ current \in 0..Len(logged) /\ writer \in 0..Len(logged)
  /\ rotated \in [1..BackupCount -> Nat]
  /\ logger \in [Loggers -> [at: AuditStates, event: Nat, link: Nat]]
  /\ forked \in BOOLEAN /\ raced \in BOOLEAN /\ halved \in BOOLEAN

Chaining(l) == logger[l].at = "chain"

\* The last hash is that of the last event, or of the one before it while the last
\* is being chained.
ChainInv ==
  ~forked =>
    /\ \A k, l \in Loggers : Chaining(k) /\ Chaining(l) => k = l
    /\ \A l \in Loggers : Chaining(l) => /\ logger[l].event = Len(previous)
                                         /\ lastHash = Len(previous) - 1
    /\ (\A l \in Loggers : ~Chaining(l)) => lastHash = Len(previous)
    /\ \A e \in 1..Len(previous) : previous[e] = e - 1

\* The number of files that are full: the newest of them is log.1, the one before
\* it log.2, and so on.
Full == IF current = Nothing THEN Len(logged) ELSE Len(logged) - 1

FileInv ==
  ~raced =>
    /\ current \in {Nothing, Len(logged)} /\ writer \in {Nothing, current}
    /\ ~halved => \A n \in 1..BackupCount :
         rotated[n] = IF n <= Full THEN Full - n + 1 ELSE Nothing
    /\ \A l \in Loggers : logger[l].at = "rename" =>
         /\ writer = Nothing /\ current # Nothing
         /\ \A k \in Loggers : logger[k].at = "rename" => k = l
         /\ \A k \in Loggers : logger[k].at # "write"
    /\ \A l \in Loggers : logger[l].at = "write" => writer # Nothing
    /\ \A e \in 1..Len(previous) :
         e \in StillToWrite \cup unlogged \/ \E f \in 1..Len(logged) : e \in logged[f]

AuditInv == AuditTypes /\ ChainInv /\ FileInv

LEMMA AuditInitInv == AuditInit => AuditInv
<1> SUFFICES ASSUME AuditInit PROVE AuditInv
  OBVIOUS
<1> USE AuditAssumption DEF AuditInit, Quiet, Nothing
<1>1. AuditTypes
  <2>1. Len(logged) = 0 /\ logged \in Seq(SUBSET Nat) /\ previous \in Seq(Nat)
    OBVIOUS
  <2>2. logger \in [Loggers -> [at: AuditStates, event: Nat, link: Nat]]
    BY DEF AuditStates
  <2>3. rotated \in [1..BackupCount -> Nat]
    OBVIOUS
  <2> QED
    <3>1. lastHash \in Nat /\ current \in 0..0 /\ writer \in 0..0
      OBVIOUS
    <3> QED
      BY <2>1, <2>2, <2>3, <3>1 DEF AuditTypes
<1>2. ChainInv
  BY DEF ChainInv, Chaining
<1>3. FileInv
  BY DEF FileInv, Full
<1> QED
  BY <1>1, <1>2, <1>3 DEF AuditInv

\* What a logger that moves on changes of the loggers.
LEMMA LoggerMoves ==
  ASSUME AuditTypes, NEW l \in Loggers, NEW s \in AuditStates,
         logger' = [logger EXCEPT ![l].at = s]
  PROVE  /\ logger' \in [Loggers -> [at: AuditStates, event: Nat, link: Nat]]
         /\ \A k \in Loggers : /\ logger'[k].event = logger[k].event
                               /\ logger'[k].at = IF k = l THEN s ELSE logger[k].at
  BY DEF AuditTypes

LEMMA LoggerSet ==
  ASSUME AuditTypes, NEW l \in Loggers,
         NEW r \in [at: AuditStates, event: Nat, link: Nat],
         logger' = [logger EXCEPT ![l] = r]
  PROVE  /\ logger' \in [Loggers -> [at: AuditStates, event: Nat, link: Nat]]
         /\ \A k \in Loggers : logger'[k] = IF k = l THEN r ELSE logger[k]
  BY DEF AuditTypes

LEMMA QuietRecord == /\ Quiet \in [at: AuditStates, event: Nat, link: Nat]
                     /\ Quiet.at = "idle"
  BY DEF Quiet, AuditStates, Nothing

LEMMA StillEvent ==
  ASSUME NEW e
  PROVE  e \in StillToWrite <=>
           \E l \in Loggers : /\ logger[l].at \in {"chain", "buffer", "open", "write"}
                              /\ logger[l].event = e
  BY DEF StillToWrite

LEMMA StillNext ==
  ASSUME NEW e
  PROVE  e \in StillToWrite' <=>
           \E l \in Loggers : /\ logger'[l].at \in {"chain", "buffer", "open", "write"}
                              /\ logger'[l].event = e
  BY DEF StillToWrite

(* The chain *)

\* A step that begins and ends no chaining leaves the chain as it is.
LEMMA ChainStays ==
  ASSUME ChainInv, UNCHANGED <<previous, lastHash, forked>>,
         \A k \in Loggers : /\ Chaining(k)' <=> Chaining(k)
                            /\ Chaining(k) => logger'[k].event = logger[k].event
  PROVE  ChainInv'
  BY DEF ChainInv, Chaining

LEMMA ProcessChain ==
  ASSUME AuditTypes, ChainInv, NEW l \in Loggers, ProcessEvent(l) PROVE ChainInv'
<1> SUFFICES ASSUME ~forked' PROVE ChainInv'
  BY DEF ChainInv
<1> DEFINE e == Len(previous) + 1
           r == [at |-> "chain", event |-> e, link |-> lastHash]
<1>1. /\ logger[l] = Quiet /\ previous' = Append(previous, lastHash)
      /\ logger' = [logger EXCEPT ![l] = r] /\ lastHash' = lastHash
      /\ ~forked /\ \A k \in Loggers : logger[k].at # "chain"
  BY DEF ProcessEvent
<1>2. r \in [at: AuditStates, event: Nat, link: Nat]
  BY DEF AuditTypes, AuditStates
<1>3. \A k \in Loggers : logger'[k] = IF k = l THEN r ELSE logger[k]
  BY <1>1, <1>2, LoggerSet
<1>4. /\ lastHash = Len(previous)
      /\ \A i \in 1..Len(previous) : previous[i] = i - 1
  BY <1>1 DEF ChainInv, Chaining
<1>5. /\ Len(previous') = Len(previous) + 1 /\ Len(previous) \in Nat
      /\ previous'[Len(previous) + 1] = lastHash
      /\ \A i \in 1..Len(previous) : previous'[i] = previous[i]
  BY <1>1 DEF AuditTypes
<1>6. \A i \in 1..Len(previous') : previous'[i] = i - 1
  BY <1>4, <1>5
<1>7. \A k \in Loggers : Chaining(k)' => k = l
  BY <1>1, <1>3 DEF Chaining
<1>8. Chaining(l)' /\ logger'[l].event = Len(previous) + 1
  BY <1>3 DEF Chaining
<1> QED
  BY <1>1, <1>4, <1>5, <1>6, <1>7, <1>8 DEF ChainInv

LEMMA ChainEventChain ==
  ASSUME AuditTypes, ChainInv, NEW l \in Loggers, ChainEvent(l) PROVE ChainInv'
<1> SUFFICES ASSUME ~forked' PROVE ChainInv'
  BY DEF ChainInv
<1>1. /\ Chaining(l) /\ lastHash' = logger[l].event /\ ~forked
      /\ logger' = [logger EXCEPT ![l].at = "buffer"] /\ previous' = previous
  BY DEF ChainEvent, Chaining
<1>2. \A k \in Loggers : logger'[k].at = IF k = l THEN "buffer" ELSE logger[k].at
  BY <1>1, LoggerMoves DEF AuditStates
<1>3. \A k \in Loggers : ~Chaining(k)'
  BY <1>1, <1>2 DEF ChainInv, Chaining
<1> QED
  BY <1>1, <1>3 DEF ChainInv

(* The files *)

\* A step that keeps the files, and the loggers that write, rotate or have yet to
\* write, keeps what is true of the files.
LEMMA FilesStay ==
  ASSUME FileInv, UNCHANGED <<previous, current, writer, rotated, logged, raced, halved>>,
         unlogged' = unlogged,
         \A k \in Loggers :
           /\ logger'[k].at = "rename" <=> logger[k].at = "rename"
           /\ logger'[k].at = "write" => logger[k].at = "write"
           /\ logger[k].at \in {"chain", "buffer", "open", "write"} =>
                /\ logger'[k].at \in {"chain", "buffer", "open", "write"}
                /\ logger'[k].event = logger[k].event
  PROVE  FileInv'
<1> SUFFICES ASSUME ~raced' PROVE FileInv'
  BY DEF FileInv
<1>1. Full' = Full
  BY DEF Full
<1>2. \A e : e \in StillToWrite => e \in StillToWrite'
  BY StillEvent, StillNext
<1> QED
  BY <1>1, <1>2 DEF FileInv

LEMMA ProcessFiles ==
  ASSUME AuditTypes, FileInv, NEW l \in Loggers, ProcessEvent(l)
  PROVE  AuditTypes' /\ FileInv'
<1> DEFINE r == [at |-> "chain", event |-> Len(previous) + 1, link |-> lastHash]
<1>1. /\ logger[l].at = "idle" /\ previous' = Append(previous, lastHash)
      /\ logger' = [logger EXCEPT ![l] = r]
      /\ forked' \in BOOLEAN
      /\ UNCHANGED <<lastHash, buffer, current, writer, rotated, logged, raced, halved,
                     unlogged>>
  BY DEF ProcessEvent, Quiet
<1>2. r \in [at: AuditStates, event: Nat, link: Nat]
  BY DEF AuditTypes, AuditStates
<1>3. /\ logger' \in [Loggers -> [at: AuditStates, event: Nat, link: Nat]]
      /\ \A k \in Loggers : logger'[k] = IF k = l THEN r ELSE logger[k]
  BY <1>1, <1>2, LoggerSet
<1>4. AuditTypes'
  BY <1>1, <1>3 DEF AuditTypes
<1>5. Len(previous') = Len(previous) + 1 /\ Len(previous) \in Nat
  BY <1>1 DEF AuditTypes
<1>6. \A e : e \in StillToWrite \/ e = Len(previous) + 1 => e \in StillToWrite'
  BY <1>1, <1>3, StillEvent, StillNext
<1>7. FileInv'
  <2> SUFFICES ASSUME ~raced' PROVE FileInv'
    BY DEF FileInv
  <2>1. Full' = Full
    BY <1>1 DEF Full
  <2>2. \A e \in 1..Len(previous') :
          e \in StillToWrite' \cup unlogged' \/ \E f \in 1..Len(logged') : e \in logged'[f]
    BY <1>1, <1>5, <1>6 DEF FileInv
  <2>3. \A k \in Loggers : /\ logger'[k].at = "rename" <=> logger[k].at = "rename"
                           /\ logger'[k].at = "write" <=> logger[k].at = "write"
    BY <1>1, <1>3
  <2> QED
    BY <1>1, <2>1, <2>2, <2>3 DEF FileInv
<1> QED
  BY <1>4, <1>7

\* A file at the path is the last; a new one makes those before it full.
LEMMA OpenFiles ==
  ASSUME AuditTypes, FileInv, NEW l \in Loggers, OpenWriter(l)
  PROVE  AuditTypes' /\ FileInv'
<1> DEFINE file == IF current # Nothing THEN current ELSE Len(logged) + 1
<1>1. /\ logger[l].at = "open" /\ logger' = [logger EXCEPT ![l].at = "write"]
      /\ IF writer # Nothing THEN UNCHANGED <<writer, current, logged>>
         ELSE /\ writer' = file /\ current' = file
              /\ logged' = IF file > Len(logged) THEN Append(logged, {}) ELSE logged
      /\ raced' = (raced \/ Rotating # {})
      /\ UNCHANGED <<lastHash, previous, buffer, rotated, forked, halved, unlogged>>
  BY DEF OpenWriter
<1>2. /\ logger' \in [Loggers -> [at: AuditStates, event: Nat, link: Nat]]
      /\ \A k \in Loggers : /\ logger'[k].event = logger[k].event
                            /\ logger'[k].at = IF k = l THEN "write" ELSE logger[k].at
  BY <1>1, LoggerMoves DEF AuditStates
<1>3. Len(logged) \in Nat
  BY DEF AuditTypes
<1>4. /\ logged' \in Seq(SUBSET Nat) /\ Len(logged') >= Len(logged)
      /\ Len(logged') \in Nat
      /\ \A f \in 1..Len(logged) : logged'[f] = logged[f]
  <2>1. logged \in Seq(SUBSET Nat) /\ {} \in SUBSET Nat
    BY DEF AuditTypes
  <2>2. CASE logged' = logged
    BY <1>3, <2>1, <2>2
  <2>3. CASE logged' = Append(logged, {})
    BY <1>3, <2>1, <2>3
  <2> QED
    BY <1>1, <2>2, <2>3
<1>5. /\ current' \in 0..Len(logged') /\ writer' \in 0..Len(logged')
      /\ writer' # Nothing
  BY <1>1, <1>3 DEF AuditTypes, Nothing
<1>6. AuditTypes'
  BY <1>1, <1>2, <1>4, <1>5 DEF AuditTypes
<1>7. FileInv'
  <2> SUFFICES ASSUME ~raced' PROVE FileInv'
    BY DEF FileInv
  <2>1. ~raced /\ \A k \in Loggers : logger[k].at # "rename"
    BY <1>1 DEF Rotating
  <2>2. current \in {Nothing, Len(logged)} /\ writer \in {Nothing, current}
    BY <2>1 DEF FileInv
  <2>3. Full' = Full /\ current' = Len(logged') /\ writer' = current'
    BY <1>1, <1>3, <2>2 DEF Full, Nothing, AuditTypes
  <2>4. \A k \in Loggers : logger'[k].at # "rename"
    BY <1>2, <2>1
  <2>5. \A e : e \in StillToWrite => e \in StillToWrite'
    BY <1>1, <1>2, StillEvent, StillNext
  <2>6. \A e \in 1..Len(previous) :
          e \in StillToWrite' \cup unlogged' \/ \E f \in 1..Len(logged') : e \in logged'[f]
    <3> SUFFICES ASSUME NEW e \in 1..Len(previous), e \notin StillToWrite', e \notin unlogged'
                 PROVE  \E f \in 1..Len(logged') : e \in logged'[f]
      BY <1>1
    <3>1. PICK f \in 1..Len(logged) : e \in logged[f]
      BY <1>1, <2>1, <2>5 DEF FileInv
    <3> QED
      BY <1>3, <1>4, <3>1
  <2> QED
    BY <1>1, <1>5, <2>1, <2>3, <2>4, <2>6 DEF FileInv
<1> QED
  BY <1>6, <1>7

\* The event is written because nobody rotates: the writer is still there.
LEMMA WriteFiles ==
  ASSUME AuditTypes, FileInv, NEW l \in Loggers, WriteEvent(l)
  PROVE  AuditTypes' /\ FileInv'
<1>1. /\ logger[l].at = "write" /\ logger' = [logger EXCEPT ![l].at = "check"]
      /\ logged' = IF writer = Nothing THEN logged
                   ELSE [logged EXCEPT ![writer] = @ \cup {logger[l].event}]
      /\ raced' = (raced \/ Rotating # {})
      /\ UNCHANGED <<lastHash, previous, buffer, current, writer, rotated, forked, halved,
                     unlogged>>
  BY DEF WriteEvent
<1>2. /\ logger' \in [Loggers -> [at: AuditStates, event: Nat, link: Nat]]
      /\ \A k \in Loggers : /\ logger'[k].event = logger[k].event
                            /\ logger'[k].at = IF k = l THEN "check" ELSE logger[k].at
  BY <1>1, LoggerMoves DEF AuditStates
<1>3. logger[l].event \in Nat /\ Len(logged) \in Nat
  BY DEF AuditTypes
<1>4. /\ logged' \in Seq(SUBSET Nat) /\ Len(logged') = Len(logged)
      /\ \A f \in 1..Len(logged) : logged[f] \subseteq logged'[f]
      /\ writer # Nothing => writer \in 1..Len(logged) /\ logger[l].event \in logged'[writer]
  <2>1. CASE writer = Nothing
    BY <1>1, <2>1 DEF AuditTypes
  <2>2. CASE writer # Nothing
    <3>1. writer \in 1..Len(logged)
      BY <2>2 DEF AuditTypes, Nothing
    <3>2. logged[writer] \cup {logger[l].event} \in SUBSET Nat
      BY <1>3, <3>1 DEF AuditTypes
    <3>3. logged' = [logged EXCEPT ![writer] = logged[writer] \cup {logger[l].event}]
      BY <1>1, <2>2
    <3> QED
      BY <3>1, <3>2, <3>3 DEF AuditTypes
  <2> QED
    BY <2>1, <2>2
<1>5. AuditTypes'
  BY <1>1, <1>2, <1>4 DEF AuditTypes
<1>6. FileInv'
  <2> SUFFICES ASSUME ~raced' PROVE FileInv'
    BY DEF FileInv
  <2>1. ~raced /\ \A k \in Loggers : logger[k].at # "rename"
    BY <1>1 DEF Rotating
  <2>2. Full' = Full
    BY <1>1, <1>4 DEF Full
  <2>3. writer # Nothing
    BY <1>1, <2>1 DEF FileInv
  <2>4. \A e : e \in StillToWrite => e \in StillToWrite' \/ e = logger[l].event
    BY <1>2, StillEvent, StillNext
  <2>5. \A e \in 1..Len(previous) :
          e \in StillToWrite' \cup unlogged' \/ \E f \in 1..Len(logged') : e \in logged'[f]
    <3> SUFFICES ASSUME NEW e \in 1..Len(previous), e \notin StillToWrite', e \notin unlogged',
                        e # logger[l].event
                 PROVE  \E f \in 1..Len(logged') : e \in logged'[f]
      BY <1>1, <1>4, <2>3
    <3>1. PICK f \in 1..Len(logged) : e \in logged[f]
      BY <1>1, <2>1, <2>4 DEF FileInv
    <3> QED
      BY <1>4, <3>1
  <2>6. \A k \in Loggers : logger'[k].at # "rename"
    BY <1>2, <2>1
  <2> QED
    BY <1>1, <1>4, <2>1, <2>2, <2>3, <2>5, <2>6 DEF FileInv
<1> QED
  BY <1>5, <1>6

\* An event whose writing fails is no longer to be written.
LEMMA FailFiles ==
  ASSUME AuditTypes, FileInv, NEW l \in Loggers, WriteFails(l)
  PROVE  AuditTypes' /\ FileInv'
<1>1. /\ \/ logged' = logged
         \/ writer # Nothing /\ logged' = [logged EXCEPT ![writer] = @ \cup {logger[l].event}]
      /\ unlogged' = unlogged \cup {logger[l].event}
      /\ logger' = [logger EXCEPT ![l] = Quiet] /\ logger[l].at \in {"open", "write"}
      /\ UNCHANGED <<lastHash, previous, buffer, current, writer, rotated, forked, raced,
                     halved>>
  BY DEF WriteFails
<1>2. /\ logger' \in [Loggers -> [at: AuditStates, event: Nat, link: Nat]]
      /\ \A k \in Loggers : logger'[k] = IF k = l THEN Quiet ELSE logger[k]
  BY <1>1, LoggerSet, QuietRecord
<1>3. /\ logged' \in Seq(SUBSET Nat) /\ Len(logged') = Len(logged)
      /\ \A f \in 1..Len(logged) : logged[f] \subseteq logged'[f]
  <2>1. CASE logged' = logged
    BY <2>1 DEF AuditTypes
  <2>2. CASE writer # Nothing /\ logged' = [logged EXCEPT ![writer] = @ \cup {logger[l].event}]
    <3>1. writer \in 1..Len(logged) /\ logger[l].event \in Nat
      BY <2>2 DEF AuditTypes, Nothing
    <3>2. logged[writer] \cup {logger[l].event} \in SUBSET Nat
      BY <3>1 DEF AuditTypes
    <3> QED
      BY <2>2, <3>1, <3>2 DEF AuditTypes
  <2> QED
    BY <1>1, <2>1, <2>2
<1>4. AuditTypes'
  BY <1>1, <1>2, <1>3 DEF AuditTypes
<1>5. FileInv'
  <2> SUFFICES ASSUME ~raced' PROVE FileInv'
    BY DEF FileInv
  <2>1. ~raced /\ Full' = Full
    BY <1>1, <1>3 DEF Full
  <2>2. \A e : e \in StillToWrite => e \in StillToWrite' \/ e = logger[l].event
    BY <1>2, StillEvent, StillNext
  <2>3. \A e \in 1..Len(previous) :
          e \in StillToWrite' \cup unlogged' \/ \E f \in 1..Len(logged') : e \in logged'[f]
    BY <1>1, <1>3, <2>1, <2>2 DEF FileInv
  <2>4. \A k \in Loggers : /\ logger'[k].at = "rename" <=> logger[k].at = "rename"
                           /\ logger'[k].at = "write" => logger[k].at = "write"
    BY <1>1, <1>2, QuietRecord
  <2> QED
    BY <1>1, <1>3, <2>1, <2>3, <2>4 DEF FileInv
<1> QED
  BY <1>4, <1>5

\* Looking changes nothing but where the call goes on.
LEMMA CheckFiles ==
  ASSUME AuditTypes, FileInv, NEW l \in Loggers, CheckRotation(l)
  PROVE  AuditTypes' /\ FileInv'
<1>0. /\ logger[l].at = "check"
      /\ UNCHANGED <<lastHash, previous, buffer, current, writer, rotated, logged, forked,
                     raced, halved, unlogged>>
      /\ \/ logger' = [logger EXCEPT ![l].at = "close"]
         \/ logger' = [logger EXCEPT ![l] = Quiet]
  BY DEF CheckRotation
<1>1. /\ logger' \in [Loggers -> [at: AuditStates, event: Nat, link: Nat]]
      /\ \A k \in Loggers : k # l => logger'[k] = logger[k]
      /\ logger'[l].at \in {"close", "idle"}
  <2>1. CASE logger' = [logger EXCEPT ![l].at = "close"]
    BY <2>1 DEF AuditTypes, AuditStates
  <2>2. CASE logger' = [logger EXCEPT ![l] = Quiet]
    BY <2>2, LoggerSet, QuietRecord
  <2> QED
    BY <1>0, <2>1, <2>2
<1>2. AuditTypes'
  BY <1>0, <1>1 DEF AuditTypes
<1>3. \A k \in Loggers :
        /\ logger'[k].at = "rename" <=> logger[k].at = "rename"
        /\ logger'[k].at = "write" => logger[k].at = "write"
        /\ logger[k].at \in {"chain", "buffer", "open", "write"} =>
             /\ logger'[k].at \in {"chain", "buffer", "open", "write"}
             /\ logger'[k].event = logger[k].event
  BY <1>0, <1>1
<1> QED
  BY <1>0, <1>2, <1>3, FilesStay

\* Unless the file has been rotated meanwhile, it is still at the path when the writer
\* is closed.
LEMMA CloseFiles ==
  ASSUME AuditTypes, FileInv, NEW l \in Loggers, CloseWriter(l)
  PROVE  AuditTypes' /\ FileInv'
<1>1. /\ writer' = Nothing /\ logger' = [logger EXCEPT ![l].at = "rename"]
      /\ raced' = (raced \/ ~FileIsFull \/ Rotating # {}
                        \/ \E k \in Loggers : logger[k].at = "write")
      /\ logger[l].at = "close"
      /\ UNCHANGED <<lastHash, previous, buffer, current, rotated, logged, forked, halved,
                     unlogged>>
  BY DEF CloseWriter
<1>2. /\ logger' \in [Loggers -> [at: AuditStates, event: Nat, link: Nat]]
      /\ \A k \in Loggers : /\ logger'[k].event = logger[k].event
                            /\ logger'[k].at = IF k = l THEN "rename" ELSE logger[k].at
  BY <1>1, LoggerMoves DEF AuditStates
<1>3. AuditTypes'
  BY <1>1, <1>2 DEF AuditTypes, Nothing
<1>4. FileInv'
  <2> SUFFICES ASSUME ~raced' PROVE FileInv'
    BY DEF FileInv
  <2>1. ~raced /\ \A k \in Loggers : logger[k].at \notin {"rename", "write"}
    BY <1>1 DEF Rotating
  <2>2. current # Nothing /\ Full' = Full
    BY <1>1 DEF Full, FileIsFull
  <2>3. \A e : e \in StillToWrite => e \in StillToWrite'
    BY <1>1, <1>2, StillEvent, StillNext
  <2>4. \A k \in Loggers : /\ logger'[k].at # "write"
                           /\ logger'[k].at = "rename" => k = l
    BY <1>2, <2>1
  <2> QED
    BY <1>1, <2>1, <2>2, <2>3, <2>4 DEF FileInv
<1> QED
  BY <1>3, <1>4

LEMMA ShiftedType == ASSUME AuditTypes PROVE Shifted \in [1..BackupCount -> Nat]
<1>1. BackupCount \in Nat /\ BackupCount >= 1
  BY AuditAssumption
<1> SUFFICES ASSUME NEW n \in 1..BackupCount PROVE
      (IF n > 1 /\ rotated[n - 1] # Nothing THEN rotated[n - 1]
       ELSE IF n < BackupCount THEN Nothing ELSE rotated[n]) \in Nat
  BY DEF Shifted
<1> QED
  BY <1>1 DEF AuditTypes, Nothing

\* A rotation that fails at once leaves every file where it is.
LEMMA HalfFiles ==
  ASSUME AuditTypes, FileInv, NEW l \in Loggers, NEW n \in 1..BackupCount, RenameFails(l, n)
  PROVE  AuditTypes' /\ FileInv'
<1>1. /\ logger[l].at = "rename" /\ rotated' = Halfway(n)
      /\ halved' = (halved \/ rotated' # rotated)
      /\ logger' = [logger EXCEPT ![l] = Quiet]
      /\ UNCHANGED <<lastHash, previous, buffer, current, writer, logged, forked, raced,
                     unlogged>>
  BY DEF RenameFails
<1>2. /\ logger' \in [Loggers -> [at: AuditStates, event: Nat, link: Nat]]
      /\ \A k \in Loggers : logger'[k] = IF k = l THEN Quiet ELSE logger[k]
  BY <1>1, LoggerSet, QuietRecord
<1>3. Halfway(n) \in [1..BackupCount -> Nat]
  BY ShiftedType DEF Halfway, AuditTypes, Nothing
<1>4. AuditTypes'
  BY <1>1, <1>2, <1>3 DEF AuditTypes
<1>5. FileInv'
  <2> SUFFICES ASSUME ~raced' PROVE FileInv'
    BY DEF FileInv
  <2>1. ~raced /\ Full' = Full
    BY <1>1 DEF Full
  <2>2. ~halved' => ~halved /\ rotated' = rotated
    BY <1>1
  <2>3. \A e : e \in StillToWrite => e \in StillToWrite'
    BY <1>1, <1>2, StillEvent, StillNext
  <2>4. \A k \in Loggers : /\ logger'[k].at = "rename" => logger[k].at = "rename"
                           /\ logger'[k].at = "write" => logger[k].at = "write"
    BY <1>2, QuietRecord
  <2> QED
    BY <1>1, <2>1, <2>2, <2>3, <2>4 DEF FileInv
<1> QED
  BY <1>4, <1>5

\* Every older file takes the next name, and the oldest, if there is no name left,
\* is dropped.
LEMMA RenameAll ==
  ASSUME AuditTypes, FileInv, NEW l \in Loggers, RenameFiles(l)
  PROVE  AuditTypes' /\ FileInv'
<1>1. /\ logger[l].at = "rename"
      /\ rotated' = IF current # Nothing THEN [Shifted EXCEPT ![1] = current] ELSE Shifted
      /\ current' = Nothing /\ logger' = [logger EXCEPT ![l] = Quiet]
      /\ UNCHANGED <<lastHash, previous, buffer, writer, logged, forked, raced, halved,
                     unlogged>>
  BY DEF RenameFiles
<1>2. /\ logger' \in [Loggers -> [at: AuditStates, event: Nat, link: Nat]]
      /\ \A k \in Loggers : logger'[k] = IF k = l THEN Quiet ELSE logger[k]
  BY <1>1, LoggerSet, QuietRecord
<1>3. BackupCount \in Nat /\ BackupCount >= 1 /\ Len(logged) \in Nat
  BY AuditAssumption DEF AuditTypes
<1>4. Shifted \in [1..BackupCount -> Nat]
  BY ShiftedType
<1>5. rotated' \in [1..BackupCount -> Nat]
  <2>1. current \in Nat
    BY <1>3 DEF AuditTypes
  <2>2. [Shifted EXCEPT ![1] = current] \in [1..BackupCount -> Nat]
    BY <1>4, <2>1
  <2> QED
    BY <1>1, <1>4, <2>2
<1>6. AuditTypes'
  BY <1>1, <1>2, <1>5 DEF AuditTypes, Nothing
<1>7. FileInv'
  <2> SUFFICES ASSUME ~raced' PROVE FileInv'
    BY DEF FileInv
  <2>1. /\ ~raced /\ current = Len(logged) /\ current # Nothing /\ writer = Nothing
        /\ \A k \in Loggers : logger[k].at = "rename" => k = l
        /\ \A k \in Loggers : logger[k].at # "write"
    BY <1>1 DEF FileInv
  <2>2. Full = Len(logged) - 1 /\ Full' = Len(logged) /\ Full \in Nat
    BY <1>1, <1>3, <2>1 DEF Full, Nothing
  <2>3. ~halved => \A n \in 1..BackupCount :
          rotated'[n] = IF n <= Len(logged) THEN Len(logged) - n + 1 ELSE Nothing
    <3> HAVE ~halved
    <3>1. rotated'[1] = Len(logged)
      BY <1>1, <1>3, <1>4, <2>1
    <3>2. ASSUME NEW n \in 2..BackupCount
          PROVE  rotated'[n] = IF n <= Len(logged) THEN Len(logged) - n + 1 ELSE Nothing
      <4>1. n \in 1..BackupCount /\ n - 1 \in 1..BackupCount /\ n # 1 /\ n > 1
        BY <1>3, <3>2
      <4>2. rotated'[n] = Shifted[n]
        BY <1>1, <1>4, <2>1, <4>1
      <4>3. Shifted[n] = IF n > 1 /\ rotated[n - 1] # Nothing THEN rotated[n - 1]
                         ELSE IF n < BackupCount THEN Nothing ELSE rotated[n]
        BY <4>1 DEF Shifted
      <4>4. /\ rotated[n - 1] = IF n - 1 <= Full THEN Full - (n - 1) + 1 ELSE Nothing
            /\ rotated[n] = IF n <= Full THEN Full - n + 1 ELSE Nothing
        BY <2>1, <4>1 DEF FileInv
      <4> QED
        BY <1>3, <2>2, <4>1, <4>2, <4>3, <4>4 DEF Nothing
    <3> QED
      BY <1>3, <2>1, <3>1, <3>2 DEF Nothing
  <2>4. \A e : e \in StillToWrite => e \in StillToWrite'
    BY <1>1, <1>2, StillEvent, StillNext
  <2>5. \A k \in Loggers : logger'[k].at # "rename" /\ logger'[k].at # "write"
    BY <1>2, <2>1, QuietRecord
  <2> QED
    BY <1>1, <2>1, <2>2, <2>3, <2>4, <2>5 DEF FileInv
<1> QED
  BY <1>6, <1>7

\* The steps that only move a logger on, past the chain and before the files.
LEMMA QuietFiles ==
  ASSUME AuditTypes, FileInv, NEW l \in Loggers, ChainEvent(l) \/ BufferEvent(l)
  PROVE  AuditTypes' /\ FileInv'
<1>1. PICK s \in {"buffer", "open"} :
        /\ logger[l].at \in {"chain", "buffer"}
        /\ logger' = [logger EXCEPT ![l].at = s]
        /\ lastHash' \in {lastHash, logger[l].event}
        /\ UNCHANGED <<previous, current, writer, rotated, logged, forked, raced, halved,
                     unlogged>>
  BY DEF ChainEvent, BufferEvent
<1>2. /\ logger' \in [Loggers -> [at: AuditStates, event: Nat, link: Nat]]
      /\ \A k \in Loggers : /\ logger'[k].event = logger[k].event
                            /\ logger'[k].at = IF k = l THEN s ELSE logger[k].at
  <2>1. s \in AuditStates
    BY DEF AuditStates
  <2> QED
    BY <1>1, <2>1, LoggerMoves
<1>3. AuditTypes'
  BY <1>1, <1>2 DEF AuditTypes
<1>4. \A k \in Loggers :
        /\ logger'[k].at = "rename" <=> logger[k].at = "rename"
        /\ logger'[k].at = "write" => logger[k].at = "write"
        /\ logger[k].at \in {"chain", "buffer", "open", "write"} =>
             /\ logger'[k].at \in {"chain", "buffer", "open", "write"}
             /\ logger'[k].event = logger[k].event
  BY <1>1, <1>2
<1> QED
  BY <1>1, <1>3, <1>4, FilesStay

\* The other steps neither begin nor end a chaining.
LEMMA ChainElsewhere ==
  ASSUME AuditTypes, ChainInv, NEW l \in Loggers,
         \/ BufferEvent(l) \/ OpenWriter(l) \/ WriteEvent(l) \/ WriteFails(l)
         \/ CheckRotation(l) \/ CloseWriter(l) \/ RenameFiles(l)
         \/ \E n \in 1..BackupCount : RenameFails(l, n)
  PROVE  ChainInv'
<1>1. /\ logger[l].at # "chain" /\ UNCHANGED <<previous, lastHash, forked>>
      /\ \/ \E s \in AuditStates \ {"chain"} : logger' = [logger EXCEPT ![l].at = s]
         \/ logger' = [logger EXCEPT ![l] = Quiet]
  BY DEF BufferEvent, OpenWriter, WriteEvent, WriteFails, CheckRotation, CloseWriter,
         RenameFiles, RenameFails, AuditStates
<1>2. CASE \E s \in AuditStates \ {"chain"} : logger' = [logger EXCEPT ![l].at = s]
  <2>1. PICK s \in AuditStates \ {"chain"} : logger' = [logger EXCEPT ![l].at = s]
    BY <1>2
  <2>2. \A k \in Loggers : /\ logger'[k].event = logger[k].event
                           /\ logger'[k].at = IF k = l THEN s ELSE logger[k].at
    BY <2>1, LoggerMoves
  <2> QED
    BY <1>1, <2>2, ChainStays DEF Chaining
<1>3. CASE logger' = [logger EXCEPT ![l] = Quiet]
  <2>1. \A k \in Loggers : logger'[k] = IF k = l THEN Quiet ELSE logger[k]
    BY <1>3, LoggerSet, QuietRecord
  <2> QED
    BY <1>1, <2>1, ChainStays, QuietRecord DEF Chaining
<1> QED
  BY <1>1, <1>2, <1>3

LEMMA AuditStep == AuditInv /\ [AuditNext]_AuditVars => AuditInv'
<1> SUFFICES ASSUME AuditTypes, ChainInv, FileInv, [AuditNext]_AuditVars
             PROVE  AuditTypes' /\ ChainInv' /\ FileInv'
  BY DEF AuditInv
<1>1. ASSUME NEW l \in Loggers, ProcessEvent(l)
      PROVE  AuditTypes' /\ ChainInv' /\ FileInv'
  BY <1>1, ProcessChain, ProcessFiles
<1>2. ASSUME NEW l \in Loggers, ChainEvent(l)
      PROVE  AuditTypes' /\ ChainInv' /\ FileInv'
  BY <1>2, ChainEventChain, QuietFiles
<1>3. ASSUME NEW l \in Loggers, \/ BufferEvent(l) \/ OpenWriter(l) \/ WriteEvent(l)
                                \/ WriteFails(l) \/ CheckRotation(l)
                                \/ CloseWriter(l) \/ RenameFiles(l)
      PROVE  AuditTypes' /\ ChainInv' /\ FileInv'
  BY <1>3, ChainElsewhere, QuietFiles, OpenFiles, WriteFiles, FailFiles, CheckFiles,
     CloseFiles, RenameAll
<1>5. ASSUME NEW l \in Loggers, NEW n \in 1..BackupCount, RenameFails(l, n)
      PROVE  AuditTypes' /\ ChainInv' /\ FileInv'
  BY <1>5, ChainElsewhere, HalfFiles
<1>4. CASE UNCHANGED AuditVars
  <2>1. UNCHANGED <<lastHash, previous, buffer, current, writer, rotated, logged, logger,
                    forked, raced, halved, unlogged>>
    BY <1>4 DEF AuditVars
  <2>2. AuditTypes' /\ ChainInv'
    BY <2>1 DEF AuditTypes, ChainInv, Chaining
  <2>3. FileInv'
    BY <2>1, FilesStay
  <2> QED
    BY <2>2, <2>3
<1> QED
  BY <1>1, <1>2, <1>3, <1>4, <1>5 DEF AuditNext

\* For any number of loggers, sizes and files: unless two events were chained at
\* once each leads back to the one before it, and unless a call overlapped with a
\* rotation no event is lost but those whose writing failed and, unless a rotation
\* failed halfway, the newest full files are the ones that are kept
\* (audit_logging.rs:846, 873-960).
THEOREM LogCanBeReliedUpon == AuditSpec => []LogStands
<1>1. AuditInv => LogStands
  <2> SUFFICES ASSUME AuditTypes, ChainInv, FileInv PROVE LogStands
    BY DEF AuditInv
  <2>0. /\ DOMAIN previous = 1..Len(previous) /\ DOMAIN logged = 1..Len(logged)
        /\ DOMAIN rotated = 1..BackupCount /\ Len(logged) \in Nat
        /\ BackupCount \in Nat /\ BackupCount >= 1
    BY AuditAssumption DEF AuditTypes
  <2>1. ChainIsLinear
    BY <2>0 DEF ChainIsLinear, ChainInv
  <2>2. ASSUME ~raced, ~halved, NEW f \in 1..Len(logged), f # current,
               ~(Len(logged) - f >= BackupCount)
        PROVE  \E n \in 1..BackupCount : f = rotated[n]
    <3>1. current \in {Nothing, Len(logged)}
      BY <2>2 DEF FileInv
    <3>2. Full \in Nat /\ f <= Full /\ Full - f + 1 <= BackupCount
      <4>1. CASE current = Nothing
        BY <2>0, <2>2, <4>1 DEF Full
      <4>2. CASE current # Nothing /\ current = Len(logged)
        <5>1. Full = Len(logged) - 1 /\ f # Len(logged)
          BY <2>2, <4>2 DEF Full
        <5>2. Len(logged) \in Nat /\ BackupCount \in Nat /\ Len(logged) - f < BackupCount
          BY <2>0, <2>2
        <5>3. Full \in Nat /\ f <= Full
          BY <5>1, <5>2
        <5>4. Full - f + 1 = Len(logged) - f
          BY <5>1, <5>2
        <5> QED
          BY <5>2, <5>3, <5>4
      <4> QED
        BY <3>1, <4>1, <4>2
    <3>3. Full - f + 1 \in 1..BackupCount /\ Full - f + 1 <= Full
      BY <2>0, <3>2
    <3>4. rotated[Full - f + 1] = Full - (Full - f + 1) + 1
      BY <2>2, <3>3 DEF FileInv
    <3>5. Full - (Full - f + 1) + 1 = f
      BY <3>2
    <3> QED
      BY <3>3, <3>4, <3>5
  <2>3. NewestFilesKept
    <3> SUFFICES ASSUME ~raced PROVE NewestFilesKept
      BY DEF NewestFilesKept
    <3>1. writer \in {Nothing, current}
      BY DEF FileInv
    <3>2. \A e \in DOMAIN previous :
            e \in StillToWrite \cup unlogged \/ \E f \in DOMAIN logged : e \in logged[f]
      BY <2>0 DEF FileInv
    <3>3. ~halved => \A f \in DOMAIN logged :
            f \in {current} \cup {rotated[n] : n \in DOMAIN rotated}
              \/ Len(logged) - f >= BackupCount
      BY <2>0, <2>2
    <3> QED
      BY <3>1, <3>2, <3>3 DEF NewestFilesKept
  <2> QED
    BY <2>1, <2>3 DEF LogStands
<1> QED
  BY <1>1, AuditInitInv, AuditStep, PTL DEF AuditSpec

-----------------------------------------------------------------------------
(* AuditMonitor: the alerts of one type, and of one event.                      *)

MonitorAlerts == [source: Sources, type: AlertTypes, time: Nat]
RaisedWith(n) == {r \in raised : r.copy = n}

MonitorTypes ==
  /\ now \in Nat /\ received \in Nat
  /\ loop \in [at: {"receive", "analyze", "send"}, found: SUBSET MonitorAlerts,
               sent: Nat]
  /\ raised \subseteq [alert: MonitorAlerts, copy: Nat,
                       status: {"Active", "Investigating"}]
  /\ IsFiniteSet(raised)

\* What an event found is as young as its analysis, and no alert is younger.
TimesInv ==
  /\ \A r \in raised : r.alert.time <= now
  /\ \A a \in loop.found : a.time <= now
  /\ loop.at = "send" => /\ \A a, b \in loop.found : a.time = b.time
                         /\ \A a \in loop.found, r \in raised : r.alert.time <= a.time

CountInv ==
  /\ \A n \in Nat : Cardinality(RaisedWith(n)) <= AtMost
  /\ \A r \in raised : r.copy <= received
  /\ loop.at = "analyze" => RaisedWith(received) = {}
  /\ loop.at = "send" => Cardinality(RaisedWith(received)) <= loop.sent
  /\ loop.at = "send" /\ loop.found # {} => loop.sent < AtMost

SpacedInv ==
  \A q, r \in raised :
    /\ q # r /\ q.status = "Active" /\ r.status = "Active"
    /\ q.alert.type = r.alert.type /\ q.alert.time <= r.alert.time
    => r.alert.time - q.alert.time >= Cooldown

MonitorInv == MonitorTypes /\ TimesInv /\ CountInv /\ SpacedInv

LEMMA SomeMayCome == /\ PerEvent \in Nat /\ AtMost \in Nat /\ AtMost > 0
                     /\ PerEvent <= AtMost
  BY MonitorAssumption DEF AtMost

LEMMA MonitorInitInv == MonitorInit => MonitorInv
<1> SUFFICES ASSUME MonitorInit PROVE MonitorInv
  OBVIOUS
<1>1. IsFiniteSet({}) /\ Cardinality({}) = 0
  BY FS_EmptySet
<1>2. \A n : RaisedWith(n) = {}
  BY DEF MonitorInit, RaisedWith
<1>3. AtMost \in Nat
  BY SomeMayCome
<1>4. raised = {} /\ now = 0 /\ received = 0 /\ loop = Idle
      /\ Idle.at = "receive" /\ Idle.found = {} /\ Idle.sent = 0
  BY DEF MonitorInit, Idle
<1>5. MonitorTypes
  BY <1>1, <1>4 DEF MonitorTypes, Idle
<1>6. TimesInv /\ SpacedInv
  BY <1>4 DEF TimesInv, SpacedInv
<1>7. CountInv
  BY <1>1, <1>2, <1>3, <1>4 DEF CountInv
<1> QED
  BY <1>5, <1>6, <1>7 DEF MonitorInv

LEMMA ReceiveEventInv ==
  ASSUME MonitorInv, NEW s \in Sources, NEW k \in AlertTypes, ReceiveEvent(s, k)
  PROVE  MonitorInv'
<1> USE DEF MonitorInv
<1>1. /\ loop.at = "receive" /\ received' = received + 1
      /\ loop' = [loop EXCEPT !.at = "analyze"] /\ UNCHANGED <<now, raised>>
  BY DEF ReceiveEvent
<1>2. /\ MonitorTypes' /\ loop'.at = "analyze" /\ loop'.found = loop.found
  BY <1>1 DEF MonitorTypes
<1>3. TimesInv' /\ SpacedInv'
  BY <1>1, <1>2 DEF TimesInv, SpacedInv
<1>4. \A n : RaisedWith(n)' = RaisedWith(n)
  BY <1>1 DEF RaisedWith
<1>5. \A r \in raised : r.copy \in Nat /\ r.copy <= received
  BY DEF MonitorTypes, CountInv
<1>6. RaisedWith(received)' = {}
  <2>1. \A r \in raised' : r.copy # received'
    BY <1>1, <1>5 DEF MonitorTypes
  <2> QED
    BY <2>1 DEF RaisedWith
<1>7. \A r \in raised' : r.copy <= received'
  BY <1>1, <1>5 DEF MonitorTypes
<1> QED
  BY <1>2, <1>3, <1>4, <1>6, <1>7 DEF CountInv

LEMMA AnalyzeInv == MonitorInv /\ Analyze => MonitorInv'
<1> SUFFICES ASSUME MonitorInv, Analyze PROVE MonitorInv'
  OBVIOUS
<1> USE DEF MonitorInv
<1> DEFINE F == {[source |-> p[1], type |-> p[2], time |-> now] : p \in Suspects}
<1>1. /\ loop.at = "analyze" /\ loop' = [at |-> "send", sent |-> 0, found |-> F]
      /\ UNCHANGED <<now, received, past, raised>>
  BY DEF Analyze
<1>2. now \in Nat
  BY DEF MonitorTypes
<1>3. F \subseteq MonitorAlerts /\ \A a \in F : a.time = now
  BY <1>2 DEF MonitorAlerts, Suspects
<1> HIDE DEF F
<1>4. loop'.at = "send" /\ loop'.found = F /\ loop'.sent = 0
  BY <1>1
<1>5. MonitorTypes'
  BY <1>1, <1>3 DEF MonitorTypes
<1>6. TimesInv' /\ SpacedInv'
  BY <1>1, <1>2, <1>3, <1>4 DEF TimesInv, SpacedInv
<1>7. CountInv'
  <2>1. \A n : RaisedWith(n)' = RaisedWith(n)
    BY <1>1 DEF RaisedWith
  <2>2. RaisedWith(received)' = {}
    BY <1>1 DEF CountInv, RaisedWith
  <2> QED
    BY <1>1, <1>4, <2>1, <2>2, FS_EmptySet, SomeMayCome DEF CountInv
<1> QED
  BY <1>5, <1>6, <1>7

\* What is left of the found alerts when one of them has been looked at.
LEMMA LoopPasses ==
  ASSUME MonitorTypes, NEW a \in loop.found, NEW n \in Nat, loop' = Passed(a, n)
  PROVE  /\ loop' \in [at: {"receive", "analyze", "send"}, found: SUBSET MonitorAlerts, sent: Nat]
         /\ loop'.at = loop.at /\ loop'.found \subseteq loop.found /\ loop'.sent = n
         /\ loop'.found # {} => n < AtMost
<1>1. loop' = [loop EXCEPT !.sent = n,
                           !.found = IF n >= PerEvent THEN {} ELSE loop.found \ {a}]
  BY DEF Passed
<1>2. /\ loop'.at = loop.at /\ loop'.sent = n
      /\ loop'.found = IF n >= PerEvent THEN {} ELSE loop.found \ {a}
      /\ loop' \in [at: {"receive", "analyze", "send"}, found: SUBSET MonitorAlerts, sent: Nat]
  BY <1>1 DEF MonitorTypes
<1>3. loop'.found # {} => n < AtMost
  BY <1>2, SomeMayCome
<1> QED
  BY <1>2, <1>3

\* An alert that is not suppressed comes the cooldown after every active one of its
\* type, of which none is younger.
LEMMA PassAlertInv ==
  ASSUME MonitorInv, NEW a \in loop.found, PassAlert(a) PROVE MonitorInv'
<1> USE DEF MonitorInv
<1>a. /\ loop.at = "send" /\ loop.sent < AtMost /\ loop.sent \in Nat /\ AtMost \in Nat
      /\ received \in Nat /\ now \in Nat /\ a \in MonitorAlerts
      /\ UNCHANGED <<now, received, past>>
  BY SomeMayCome DEF PassAlert, NextAlert, MonitorTypes, CountInv
<1>1. CASE Suppressed(a)
  <2>1. loop' = Passed(a, loop.sent) /\ raised' = raised
    BY <1>1 DEF PassAlert
  <2>2. /\ loop'.at = loop.at /\ loop'.found \subseteq loop.found /\ loop'.sent = loop.sent
        /\ loop' \in [at: {"receive", "analyze", "send"}, found: SUBSET MonitorAlerts, sent: Nat]
        /\ loop'.found # {} => loop'.sent < AtMost
    BY <1>a, <2>1, LoopPasses
  <2>3. \A n : RaisedWith(n)' = RaisedWith(n)
    BY <2>1 DEF RaisedWith
  <2> QED
    BY <1>a, <2>1, <2>2, <2>3 DEF MonitorTypes, TimesInv, SpacedInv, CountInv
<1>2. CASE ~Suppressed(a)
  <2> DEFINE x == [alert |-> a, copy |-> received, status |-> "Active"]
  <2>1. /\ loop' = Passed(a, loop.sent + 1)
        /\ raised' = raised \cup {x}
    BY <1>2 DEF PassAlert
  <2>2. /\ loop'.at = "send" /\ loop'.found \subseteq loop.found
        /\ loop'.sent = loop.sent + 1 /\ (loop'.found # {} => loop'.sent < AtMost)
        /\ loop' \in [at: {"receive", "analyze", "send"}, found: SUBSET MonitorAlerts, sent: Nat]
    <3>1. loop.sent + 1 \in Nat
      BY <1>a
    <3>2. PICK n \in Nat : n = loop.sent + 1
      BY <3>1
    <3>3. loop' = Passed(a, n)
      BY <2>1, <3>2
    <3> QED
      BY <1>a, <3>2, <3>3, LoopPasses
  <2>3. x \in [alert: MonitorAlerts, copy: Nat, status: {"Active", "Investigating"}]
        /\ x.alert = a /\ x.copy = received /\ x.status = "Active"
    BY <1>a
  <2>4. IsFiniteSet(raised')
    BY <2>1, FS_AddElement DEF MonitorTypes
  <2> HIDE DEF x
  <2>5. MonitorTypes'
    BY <1>a, <2>1, <2>2, <2>3, <2>4 DEF MonitorTypes
  <2>6. TimesInv'
    <3>1. a.time \in Nat /\ a.time <= now
      BY <1>a DEF TimesInv, MonitorAlerts
    <3>2. \A r \in raised' : r.alert.time <= now
      BY <2>1, <2>3, <3>1 DEF TimesInv
    <3>3. \A b \in loop'.found, r \in raised' : r.alert.time <= b.time
      <4> TAKE b \in loop'.found, r \in raised'
      <4>1. b \in loop.found /\ b.time = a.time
        BY <1>a, <2>2 DEF TimesInv
      <4>2. CASE r \in raised
        BY <1>a, <4>1, <4>2 DEF TimesInv
      <4>3. CASE r = x
        BY <2>3, <3>1, <4>1, <4>3
      <4> QED
        BY <2>1, <4>2, <4>3
    <3> QED
      BY <1>a, <2>2, <3>2, <3>3 DEF TimesInv
  <2>7. SpacedInv'
    <3> SUFFICES ASSUME NEW q \in raised', NEW r \in raised',
                        q # r, q.status = "Active", r.status = "Active",
                        q.alert.type = r.alert.type, q.alert.time <= r.alert.time
                 PROVE  r.alert.time - q.alert.time >= Cooldown
      BY DEF SpacedInv
    <3>1. \A y \in raised : y.status = "Active" /\ y.alert.type = a.type =>
            /\ ~(a.time - y.alert.time < Cooldown)
            /\ y.alert.time <= a.time /\ y.alert.time \in Nat
      BY <1>2, <1>a DEF Suppressed, TimesInv, MonitorTypes, MonitorAlerts
    <3>2. a.time \in Nat /\ Cooldown \in Nat
      BY <1>a, MonitorAssumption DEF MonitorAlerts
    <3>3. CASE q \in raised /\ r \in raised
      BY <3>3 DEF SpacedInv
    <3>4. CASE q \in raised /\ r = x
      BY <2>3, <3>1, <3>2, <3>4
    <3>5. CASE q = x /\ r \in raised
      BY <2>3, <3>1, <3>2, <3>5
    <3> QED
      BY <2>1, <3>3, <3>4, <3>5
  <2>8. CountInv'
    <3>1. \A n \in Nat : n # received => RaisedWith(n)' = RaisedWith(n)
      BY <2>1, <2>3 DEF RaisedWith
    <3>2. RaisedWith(received)' = RaisedWith(received) \cup {x}
      BY <1>a, <2>1, <2>3 DEF RaisedWith
    <3>3. IsFiniteSet(RaisedWith(received))
      BY FS_Subset DEF RaisedWith, MonitorTypes
    <3>4. /\ Cardinality(RaisedWith(received) \cup {x}) <= Cardinality(RaisedWith(received)) + 1
          /\ Cardinality(RaisedWith(received) \cup {x}) \in Nat
          /\ Cardinality(RaisedWith(received)) \in Nat
      <4> DEFINE R == RaisedWith(received)
      <4>1. IsFiniteSet(R)
        BY <3>3
      <4> HIDE DEF R
      <4>2. /\ IsFiniteSet(R \cup {x}) /\ Cardinality(R) \in Nat
            /\ Cardinality(R \cup {x}) = IF x \in R THEN Cardinality(R) ELSE Cardinality(R) + 1
        BY <4>1, FS_AddElement, FS_CardinalityType
      <4>3. Cardinality(R \cup {x}) <= Cardinality(R) + 1 /\ Cardinality(R \cup {x}) \in Nat
        BY <4>2
      <4> QED
        BY <4>2, <4>3 DEF R
    <3>5. Cardinality(RaisedWith(received)') <= loop.sent + 1
      BY <1>a, <3>2, <3>4 DEF CountInv
    <3>6. Cardinality(RaisedWith(received)') <= AtMost
      BY <1>a, <3>2, <3>4, <3>5
    <3> QED
      BY <1>a, <2>1, <2>2, <2>3, <3>1, <3>5, <3>6 DEF CountInv
  <2> QED
    BY <2>5, <2>6, <2>7, <2>8
<1> QED
  BY <1>1, <1>2

LEMMA EndOfEventInv == MonitorInv /\ EndOfEvent => MonitorInv'
<1> SUFFICES ASSUME MonitorInv, EndOfEvent PROVE MonitorInv'
  OBVIOUS
<1>1. /\ UNCHANGED <<now, received, raised>> /\ loop' = Idle
      /\ loop'.at = "receive" /\ loop'.found = {} /\ loop'.sent = 0
  BY DEF EndOfEvent, Idle
<1>2. \A n : RaisedWith(n)' = RaisedWith(n)
  BY <1>1 DEF RaisedWith
<1> QED
  BY <1>1, <1>2
  DEF MonitorInv, MonitorTypes, TimesInv, SpacedInv, CountInv, Idle

\* What is acknowledged or resolved is no longer active, and no alert is added.
LEMMA AlertGoesInv ==
  ASSUME MonitorInv, NEW r \in raised, AcknowledgeAlert(r) \/ ResolveAlert(r)
  PROVE  MonitorInv'
<1> USE DEF MonitorInv
<1> DEFINE x == [r EXCEPT !.status = "Investigating"]
<1>1. /\ UNCHANGED <<now, received, past, loop>>
      /\ raised' = (raised \ {r}) \cup {x} \/ raised' = raised \ {r}
  BY DEF AcknowledgeAlert, ResolveAlert
<1>2. /\ x \in [alert: MonitorAlerts, copy: Nat, status: {"Active", "Investigating"}]
      /\ x.alert = r.alert /\ x.copy = r.copy /\ x.status = "Investigating"
  BY DEF MonitorTypes
<1> HIDE DEF x
<1>3. IsFiniteSet(raised \ {r}) /\ IsFiniteSet((raised \ {r}) \cup {x})
  <2>1. IsFiniteSet(raised \ {r})
    BY FS_RemoveElement DEF MonitorTypes
  <2> QED
    BY <2>1, FS_AddElement
<1>4. MonitorTypes'
  BY <1>1, <1>2, <1>3 DEF MonitorTypes
<1>5. TimesInv'
  BY <1>1, <1>2 DEF TimesInv
<1>6. SpacedInv'
  BY <1>1, <1>2 DEF SpacedInv
<1>7. \A n \in Nat : Cardinality(RaisedWith(n)') <= Cardinality(RaisedWith(n))
  <2> TAKE n \in Nat
  <2> DEFINE R == RaisedWith(n)
  <2>1. IsFiniteSet(R)
    BY FS_Subset DEF RaisedWith, MonitorTypes
  <2>2. CASE r.copy # n
    <3>1. RaisedWith(n)' = R
      BY <1>1, <1>2, <2>2 DEF RaisedWith
    <3>2. Cardinality(R) \in Nat
      BY <2>1, FS_CardinalityType
    <3> HIDE DEF R
    <3> QED
      BY <3>1, <3>2 DEF R
  <2>3. CASE r.copy = n
    <3>1. r \in R /\ RaisedWith(n)' \subseteq (R \ {r}) \cup {x}
      BY <1>1, <2>3 DEF RaisedWith
    <3>2. IsFiniteSet(R \ {r}) /\ Cardinality(R \ {r}) = Cardinality(R) - 1
      BY <2>1, <3>1, FS_RemoveElement
    <3>3. /\ IsFiniteSet((R \ {r}) \cup {x})
          /\ Cardinality((R \ {r}) \cup {x}) <= Cardinality(R)
      <4>1. Cardinality(R) \in Nat /\ Cardinality(R \ {r}) \in Nat
        BY <2>1, <3>2, FS_CardinalityType
      <4> DEFINE T == R \ {r}
      <4>2. IsFiniteSet(T)
        BY <3>2
      <4> HIDE DEF T
      <4>3. /\ IsFiniteSet(T \cup {x})
            /\ Cardinality(T \cup {x}) = IF x \in T THEN Cardinality(T) ELSE Cardinality(T) + 1
        BY <4>2, FS_AddElement
      <4>4. Cardinality(T) = Cardinality(R) - 1 /\ Cardinality(T) \in Nat
        BY <3>2, <4>1 DEF T
      <4>5. Cardinality(T \cup {x}) <= Cardinality(R)
        BY <4>1, <4>3, <4>4
      <4> QED
        BY <4>3, <4>5 DEF T
    <3>4. /\ Cardinality(RaisedWith(n)') <= Cardinality((R \ {r}) \cup {x})
          /\ IsFiniteSet(RaisedWith(n)')
      BY <3>1, <3>3, FS_Subset
    <3>5. /\ Cardinality(RaisedWith(n)') \in Nat /\ Cardinality(R) \in Nat
          /\ Cardinality((R \ {r}) \cup {x}) \in Nat
      BY <2>1, <3>3, <3>4, FS_CardinalityType
    <3> QED
      BY <3>3, <3>4, <3>5
  <2> QED
    BY <2>2, <2>3
<1>8. CountInv'
  <2>1. \A n \in Nat : /\ Cardinality(RaisedWith(n)) \in Nat
                       /\ Cardinality(RaisedWith(n)') \in Nat
    <3> TAKE n \in Nat
    <3>1. IsFiniteSet(RaisedWith(n)) /\ IsFiniteSet(RaisedWith(n)')
      BY <1>4, FS_Subset DEF RaisedWith, MonitorTypes
    <3> QED
      BY <3>1, FS_CardinalityType
  <2>2. AtMost \in Nat /\ received \in Nat /\ loop.sent \in Nat
    BY SomeMayCome DEF MonitorTypes
  <2>3. \A n \in Nat : Cardinality(RaisedWith(n)') <= AtMost
    BY <1>7, <2>1, <2>2 DEF CountInv
  <2>4. loop.at = "send" => Cardinality(RaisedWith(received)') <= loop.sent
    <3>1. received' = received
      BY <1>1
    <3> QED
      BY <1>7, <2>1, <2>2, <3>1 DEF CountInv
  <2>5. loop.at = "analyze" => RaisedWith(received)' = {}
    BY <1>1, <1>2 DEF CountInv, RaisedWith
  <2>6. \A y \in raised' : y.copy <= received
    BY <1>1, <1>2 DEF CountInv
  <2> QED
    BY <1>1, <2>3, <2>4, <2>5, <2>6 DEF CountInv
<1> QED
  BY <1>4, <1>5, <1>6, <1>8

LEMMA ClockTicksInv == MonitorInv /\ ClockTicks => MonitorInv'
<1> SUFFICES ASSUME MonitorInv, ClockTicks PROVE MonitorInv'
  OBVIOUS
<1> USE DEF MonitorInv
<1>1. now' = now + 1 /\ UNCHANGED <<received, past, loop, raised>>
  BY DEF ClockTicks
<1>2. MonitorTypes'
  BY <1>1 DEF MonitorTypes
<1>3. /\ \A r \in raised : r.alert.time \in Nat
      /\ \A a \in loop.found : a.time \in Nat
  BY DEF MonitorTypes, MonitorAlerts
<1>4. TimesInv'
  BY <1>1, <1>3 DEF TimesInv, MonitorTypes
<1>5. \A n : RaisedWith(n)' = RaisedWith(n)
  BY <1>1 DEF RaisedWith
<1> QED
  BY <1>1, <1>2, <1>4, <1>5 DEF SpacedInv, CountInv

LEMMA MonitorStep == MonitorInv /\ [MonitorNext]_MonitorVars => MonitorInv'
<1> SUFFICES ASSUME MonitorInv, [MonitorNext]_MonitorVars PROVE MonitorInv'
  OBVIOUS
<1>1. ASSUME NEW s \in Sources, NEW k \in AlertTypes, ReceiveEvent(s, k)
      PROVE  MonitorInv'
  BY <1>1, ReceiveEventInv
<1>2. CASE Analyze \/ EndOfEvent \/ ClockTicks
  BY <1>2, AnalyzeInv, EndOfEventInv, ClockTicksInv
<1>3. ASSUME NEW a \in loop.found, PassAlert(a) PROVE MonitorInv'
  BY <1>3, PassAlertInv
<1>4. ASSUME NEW r \in raised, AcknowledgeAlert(r) \/ ResolveAlert(r) PROVE MonitorInv'
  BY <1>4, AlertGoesInv
<1>5. CASE UNCHANGED MonitorVars
  BY <1>5 DEF MonitorVars, MonitorInv, MonitorTypes, TimesInv, CountInv, SpacedInv,
              RaisedWith
<1> QED
  BY <1>1, <1>2, <1>3, <1>4, <1>5 DEF MonitorNext

\* For any sources, detectors, limits and histories: two active alerts of a type came
\* alert_cooldown apart, whatever was acknowledged or resolved, and one event raised
\* no more than max_alerts_per_minute, or one if that is 0 (audit_monitoring.rs,
\* start_monitoring).
THEOREM AlertsStaySpaced == MonitorSpec => []AlertsSpaced
<1>1. MonitorInv => AlertsSpaced
  BY MonitorAssumption DEF MonitorInv, SpacedInv, CountInv, RaisedWith, AlertsSpaced
<1> QED
  BY <1>1, MonitorStep, MonitorInitInv, PTL DEF MonitorSpec

-----------------------------------------------------------------------------
(* IntrusionDetection: a burst of events of one rule is seen.                     *)

EventStates == HoldsRules \cup {"enter", "done"}
EventRecords == [at: EventStates, todo: SUBSET Rules, ruled: BOOLEAN]

IntrusionTypes ==
  /\ arrived \in Seq(EventTypes)
  /\ recent \in Seq(Nat) /\ Buffered \subseteq 1..Len(arrived)
  /\ handling \in Seq(EventRecords) /\ Len(handling) = Len(arrived)
  /\ listed \subseteq Rules

\* The events of a type that count, have been checked and neither have an alert nor
\* are about to get one: the last of them that was checked saw all the others.
Bare(k) == {e \in Buffered : /\ arrived[e] = k /\ e \notin stale
                             /\ handling[e].ruled /\ handling[e].at # "alert"
                             /\ e \notin DOMAIN alerts}

IntrusionInv ==
  /\ IntrusionTypes
  /\ \A k \in EventTypes : ~(Cardinality(Bare(k)) >= Threshold)

LEMMA BufferedFinite ==
  ASSUME IntrusionTypes, NEW S, S \subseteq Buffered PROVE IsFiniteSet(S)
<1>1. Len(arrived) \in Nat /\ S \in SUBSET (1..Len(arrived))
  BY DEF IntrusionTypes
<1>2. IsFiniteSet(1..Len(arrived))
  BY <1>1, FS_Interval
<1> QED
  BY <1>1, <1>2, FS_Subset

LEMMA IntrusionInitInv == IntrusionInit => IntrusionInv
<1> SUFFICES ASSUME IntrusionInit PROVE IntrusionInv
  OBVIOUS
<1>1. arrived = <<>> /\ recent = <<>> /\ handling = <<>> /\ listed = Rules
  BY DEF IntrusionInit
<1>2. Buffered = {}
  BY <1>1 DEF Buffered, ToSet
<1>3. IntrusionTypes
  BY <1>1, <1>2 DEF IntrusionTypes
<1>4. \A k : Bare(k) = {}
  BY <1>2 DEF Bare
<1>5. ~(0 >= Threshold)
  BY IntrusionAssumption
<1> QED
  BY <1>3, <1>4, <1>5, FS_EmptySet DEF IntrusionInv

\* It is enough that no event becomes one of them.
LEMMA BareShrinks ==
  ASSUME IntrusionInv, IntrusionTypes',
         \A k \in EventTypes : Bare(k)' \subseteq Bare(k)
  PROVE  IntrusionInv'
<1>1. ASSUME NEW k \in EventTypes, Cardinality(Bare(k)') >= Threshold PROVE FALSE
  <2>1. IsFiniteSet(Bare(k))
    BY BufferedFinite DEF IntrusionInv, Bare
  <2>2. Cardinality(Bare(k)) >= Threshold
    BY <1>1, <2>1, NoFewer, IntrusionAssumption
  <2> QED
    BY <2>2 DEF IntrusionInv
<1> QED
  BY <1>1 DEF IntrusionInv

\* An event that arrives has been checked against nothing; another may have to go.
LEMMA TakeEventInv ==
  ASSUME IntrusionInv, NEW k \in EventTypes, TakeEvent(k) PROVE IntrusionInv'
<1> DEFINE longer == Append(recent, Len(arrived) + 1)
           h == [at |-> "enter", todo |-> {}, ruled |-> FALSE]
<1>1. /\ arrived' = Append(arrived, k) /\ handling' = Append(handling, h)
      /\ recent' = IF Len(longer) > RuleBuffer THEN Tail(longer) ELSE longer
      /\ UNCHANGED <<stale, listed, alerts>>
  BY DEF TakeEvent
<1>2. IntrusionTypes /\ Len(arrived) \in Nat
  BY DEF IntrusionInv, IntrusionTypes
<1>3. h \in EventRecords
  BY DEF EventRecords, EventStates
<1>4. /\ arrived' \in Seq(EventTypes) /\ Len(arrived') = Len(arrived) + 1
      /\ \A e \in 1..Len(arrived) : arrived'[e] = arrived[e]
  BY <1>1, <1>2 DEF IntrusionTypes
<1>5. /\ handling' \in Seq(EventRecords) /\ Len(handling') = Len(arrived) + 1
      /\ \A e \in 1..Len(arrived) : handling'[e] = handling[e]
      /\ handling'[Len(arrived) + 1].ruled = FALSE
  <2> HIDE DEF h
  <2>1. handling'[Len(arrived) + 1] = h
    BY <1>1, <1>2 DEF IntrusionTypes
  <2> QED
    BY <1>1, <1>2, <1>3, <2>1 DEF IntrusionTypes, h
<1>6. recent' \in Seq(Nat) /\ Buffered' \subseteq Buffered \cup {Len(arrived) + 1}
  <2>1. /\ longer \in Seq(Nat) /\ Len(longer) = Len(recent) + 1 /\ Len(recent) \in Nat
        /\ \A i \in 1..Len(recent) : longer[i] = recent[i]
        /\ longer[Len(recent) + 1] = Len(arrived) + 1
    BY <1>2 DEF IntrusionTypes
  <2> HIDE DEF longer
  <2>2. \A i \in 1..Len(longer) : longer[i] \in Buffered \cup {Len(arrived) + 1}
    <3>1. \A i \in 1..Len(recent) : recent[i] \in Buffered
      BY <1>2 DEF Buffered, ToSet, IntrusionTypes
    <3>2. \A i \in 1..Len(longer) : i \in 1..Len(recent) \/ i = Len(recent) + 1
      BY <2>1
    <3> QED
      BY <2>1, <3>1, <3>2
  <2>3. /\ Tail(longer) \in Seq(Nat) /\ Len(Tail(longer)) = Len(longer) - 1
        /\ \A i \in 1..(Len(longer) - 1) : Tail(longer)[i] = longer[i + 1]
    BY <2>1
  <2>4. CASE recent' = longer
    BY <2>1, <2>2, <2>4 DEF Buffered, ToSet
  <2>5. CASE recent' = Tail(longer)
    <3>1. \A i \in DOMAIN recent' : recent'[i] \in Buffered \cup {Len(arrived) + 1}
      BY <2>1, <2>2, <2>3, <2>5
    <3> QED
      BY <2>3, <2>5, <3>1 DEF Buffered, ToSet
  <2> QED
    BY <1>1, <2>4, <2>5
<1>7. IntrusionTypes'
  <2>1. Buffered' \subseteq 1..Len(arrived')
    <3>1. Buffered \subseteq 1..Len(arrived)
      BY <1>2 DEF IntrusionTypes
    <3>2. 1..Len(arrived) \cup {Len(arrived) + 1} = 1..Len(arrived')
      BY <1>2, <1>4
    <3> QED
      BY <1>6, <3>1, <3>2
  <2>2. listed' \subseteq Rules
    BY <1>1, <1>2 DEF IntrusionTypes
  <2> QED
    BY <1>4, <1>5, <1>6, <2>1, <2>2 DEF IntrusionTypes
<1>8. \A j \in EventTypes : Bare(j)' \subseteq Bare(j)
  <2> SUFFICES ASSUME NEW j \in EventTypes, NEW e \in Bare(j)' PROVE e \in Bare(j)
    OBVIOUS
  <2>1. e \in Buffered' /\ handling'[e].ruled
    BY DEF Bare
  <2>2. e \in Buffered /\ e \in 1..Len(arrived)
    BY <1>2, <1>5, <1>6, <2>1 DEF IntrusionTypes
  <2> QED
    BY <1>1, <1>4, <1>5, <2>2 DEF Bare
<1> QED
  BY <1>7, <1>8, BareShrinks

\* A check that finds enough events leads to an alert; one that does not saw all the
\* bare events of the type.
LEMMA CheckRuleInv ==
  ASSUME IntrusionInv, NEW e \in Seen, NEW r \in Rules, CheckRule(e, r)
  PROVE  IntrusionInv'
<1> DEFINE h == [at |-> IF Matches(e) THEN "alert" ELSE "check",
                 todo |-> handling[e].todo \ {r}, ruled |-> TRUE]
<1>1. /\ handling[e].at = "check" /\ handling' = [handling EXCEPT ![e] = h]
      /\ UNCHANGED <<arrived, recent, stale, listed, alerts>>
  BY DEF CheckRule
<1>2. /\ IntrusionTypes /\ Len(arrived) \in Nat /\ e \in 1..Len(arrived)
      /\ Seen = 1..Len(arrived)
  BY DEF IntrusionInv, IntrusionTypes, Seen
<1>3. h \in EventRecords
  <2>1. handling[e] \in EventRecords
    BY <1>2 DEF IntrusionTypes
  <2>2. handling[e].todo \ {r} \in SUBSET Rules
    BY <2>1 DEF EventRecords
  <2>3. (IF Matches(e) THEN "alert" ELSE "check") \in EventStates
    BY DEF EventStates, HoldsRules
  <2> QED
    BY <2>2, <2>3 DEF EventRecords
<1>4. /\ handling' \in Seq(EventRecords) /\ Len(handling') = Len(arrived)
      /\ \A f \in 1..Len(arrived) : handling'[f] = IF f = e THEN h ELSE handling[f]
  <2> HIDE DEF h
  <2> QED
    BY <1>1, <1>2, <1>3 DEF IntrusionTypes
<1>5. Buffered' = Buffered
  BY <1>1 DEF Buffered
<1>6. IntrusionTypes'
  BY <1>1, <1>2, <1>4, <1>5 DEF IntrusionTypes
<1>7. ASSUME NEW k \in EventTypes, Cardinality(Bare(k)') >= Threshold PROVE FALSE
  <2>1. \A f \in Bare(k)' : f \in Bare(k) \/ (f = e /\ ~Matches(e) /\ arrived[e] = k)
    BY <1>1, <1>2, <1>4, <1>5 DEF Bare, IntrusionTypes
  <2>2. CASE e \in Bare(k)' /\ ~Matches(e) /\ arrived[e] = k
    <3>1. Bare(k)' \subseteq SameType(e)
      BY <1>1, <1>5, <2>2 DEF Bare, SameType
    <3>2. IsFiniteSet(SameType(e))
      BY <1>2, BufferedFinite DEF SameType
    <3>3. Cardinality(SameType(e)) >= Threshold
      BY <1>7, <3>1, <3>2, NoFewer, IntrusionAssumption
    <3> QED
      BY <2>2, <3>3 DEF Matches
  <2>3. CASE ~(e \in Bare(k)' /\ ~Matches(e) /\ arrived[e] = k)
    <3>1. Bare(k)' \subseteq Bare(k)
      BY <2>1, <2>3
    <3>2. IsFiniteSet(Bare(k))
      BY <1>2, BufferedFinite DEF Bare
    <3>3. Cardinality(Bare(k)) >= Threshold
      BY <1>7, <3>1, <3>2, NoFewer, IntrusionAssumption
    <3> QED
      BY <3>3 DEF IntrusionInv
  <2> QED
    BY <2>2, <2>3
<1> QED
  BY <1>6, <1>7 DEF IntrusionInv

\* What a step says of one event changes neither the others nor whether it was
\* checked.
LEMMA EventMoves ==
  ASSUME IntrusionTypes, NEW e \in Seen, NEW h \in EventRecords,
         handling' = [handling EXCEPT ![e] = h]
  PROVE  /\ handling' \in Seq(EventRecords) /\ Len(handling') = Len(handling)
         /\ \A f \in 1..Len(arrived) : handling'[f] = IF f = e THEN h ELSE handling[f]
  BY DEF IntrusionTypes, Seen

LEMMA EventStep ==
  ASSUME IntrusionInv, NEW e \in Seen, TakeRules(e) \/ StoreAlert(e) \/ Respond(e) \/ DropRules(e)
  PROVE  IntrusionInv'
<1>1. /\ IntrusionTypes /\ Seen = 1..Len(arrived) /\ Len(arrived) \in Nat
      /\ handling[e] \in EventRecords
  BY DEF IntrusionInv, IntrusionTypes, Seen
<1>2. PICK h \in EventRecords :
        /\ handling' = [handling EXCEPT ![e] = h] /\ h.ruled = handling[e].ruled
        /\ handling[e].at = "alert" => e \in DOMAIN alerts'
  <2>1. CASE TakeRules(e)
    <3> DEFINE h == [at |-> "check", todo |-> listed, ruled |-> handling[e].ruled]
    <3>1. h \in EventRecords
      BY <1>1 DEF IntrusionTypes, EventRecords, EventStates, HoldsRules
    <3>2. handling' = [handling EXCEPT ![e] = h] /\ handling[e].at # "alert"
      BY <2>1 DEF TakeRules
    <3> QED
      BY <3>1, <3>2
  <2>2. ASSUME NEW s \in {"check", "respond", "done"},
               handling' = [handling EXCEPT ![e].at = s],
               handling[e].at = "alert" => e \in DOMAIN alerts'
        PROVE  \E h \in EventRecords :
                 /\ handling' = [handling EXCEPT ![e] = h] /\ h.ruled = handling[e].ruled
                 /\ handling[e].at = "alert" => e \in DOMAIN alerts'
    <3> DEFINE h == [handling[e] EXCEPT !.at = s]
    <3>1. h \in EventRecords /\ h.ruled = handling[e].ruled
      BY <1>1, <2>2 DEF EventRecords, EventStates, HoldsRules
    <3>2. handling' = [handling EXCEPT ![e] = h]
      BY <2>2
    <3> QED
      BY <2>2, <3>1, <3>2
  <2>3. CASE StoreAlert(e)
    BY <2>2, <2>3 DEF StoreAlert
  <2>4. CASE Respond(e)
    BY <2>2, <2>4 DEF Respond
  <2>5. CASE DropRules(e)
    BY <2>2, <2>5 DEF DropRules
  <2> QED
    BY <2>1, <2>3, <2>4, <2>5
<1>3. /\ UNCHANGED <<arrived, recent, stale, listed>>
      /\ DOMAIN alerts \subseteq DOMAIN alerts'
  BY DEF TakeRules, StoreAlert, Respond, DropRules
<1>4. /\ handling' \in Seq(EventRecords) /\ Len(handling') = Len(handling)
      /\ \A f \in 1..Len(arrived) : handling'[f] = IF f = e THEN h ELSE handling[f]
  BY <1>1, <1>2, EventMoves
<1>5. Buffered' = Buffered
  BY <1>3 DEF Buffered
<1>6. IntrusionTypes'
  BY <1>1, <1>3, <1>4, <1>5 DEF IntrusionTypes
<1>7. \A k \in EventTypes : Bare(k)' \subseteq Bare(k)
  BY <1>1, <1>2, <1>3, <1>4, <1>5 DEF Bare, IntrusionTypes
<1> QED
  BY <1>6, <1>7, BareShrinks

LEMMA IntrusionElsewhere ==
  ASSUME IntrusionInv,
         \/ \E e \in Seen : \/ LeavesWindow(e)
                            \/ \E status \in AlertStatus : UpdateAlertStatus(e, status)
         \/ \E r \in Rules : ChangeRules(r)
         \/ UNCHANGED IntrusionVars
  PROVE  IntrusionInv'
<1>1. /\ UNCHANGED <<arrived, recent, handling>> /\ listed' \subseteq Rules
      /\ stale \subseteq stale' /\ DOMAIN alerts' = DOMAIN alerts
  BY DEF IntrusionInv, IntrusionTypes, LeavesWindow, UpdateAlertStatus, ChangeRules,
         IntrusionVars
<1>2. Buffered' = Buffered
  BY <1>1 DEF Buffered
<1>3. IntrusionTypes'
  BY <1>1, <1>2 DEF IntrusionInv, IntrusionTypes
<1>4. \A k \in EventTypes : Bare(k)' \subseteq Bare(k)
  BY <1>1, <1>2 DEF Bare
<1> QED
  BY <1>3, <1>4, BareShrinks

LEMMA IntrusionStep == IntrusionInv /\ [IntrusionNext]_IntrusionVars => IntrusionInv'
<1> SUFFICES ASSUME IntrusionInv, [IntrusionNext]_IntrusionVars PROVE IntrusionInv'
  OBVIOUS
<1>1. ASSUME NEW k \in EventTypes, TakeEvent(k) PROVE IntrusionInv'
  BY <1>1, TakeEventInv
<1>2. ASSUME NEW e \in Seen, NEW r \in Rules, CheckRule(e, r) PROVE IntrusionInv'
  BY <1>2, CheckRuleInv
<1>3. ASSUME NEW e \in Seen,
             TakeRules(e) \/ StoreAlert(e) \/ Respond(e) \/ DropRules(e)
      PROVE  IntrusionInv'
  BY <1>3, EventStep
<1> QED
  BY <1>1, <1>2, <1>3, IntrusionElsewhere DEF IntrusionNext

\* For any types, rules, buffers and thresholds, and any number of events handled at
\* once: a burst in the buffer that was checked against a rule has an alert
\* (intrusion_detection.rs, process_event and check_frequency_rule).
THEOREM BurstsStaySeen == IntrusionSpec => []BurstsAreSeen
<1>1. IntrusionInv => BurstsAreSeen
  <2> SUFFICES ASSUME IntrusionInv, \A e \in Seen : handling[e].at = "done",
                      NEW k \in EventTypes
               PROVE  LET burst == {e \in Buffered : /\ arrived[e] = k /\ e \notin stale
                                                     /\ handling[e].ruled}
                      IN Cardinality(burst) >= Threshold => burst \cap DOMAIN alerts # {}
    BY DEF BurstsAreSeen
  <2> DEFINE burst == {e \in Buffered : /\ arrived[e] = k /\ e \notin stale
                                        /\ handling[e].ruled}
  <2>1. ASSUME burst \cap DOMAIN alerts = {} PROVE burst = Bare(k)
    <3>1. Buffered \subseteq Seen
      BY DEF IntrusionInv, IntrusionTypes, Seen
    <3> QED
      BY <2>1, <3>1 DEF Bare
  <2> QED
    BY <2>1 DEF IntrusionInv
<1> QED
  BY <1>1, IntrusionStep, IntrusionInitInv, PTL DEF IntrusionSpec

-----------------------------------------------------------------------------
(* The types of the components of MCServices, with their bounds.               *)

BreakerRecords == [made: BOOLEAN, failures: 0..ManyFailures, open: BOOLEAN,
                   age: 0..OpenTimeout]
CallerRecords == [at: {"out", "check", "running", "waiting"}, attempts: 0..MaxAttempts]

\* A caller that is to try again has attempts left.
AttemptsLeft(r) == r.at # "running" => r.attempts < MaxAttempts

BreakerShape ==
  /\ breaker \in BreakerRecords /\ call \in [Callers -> CallerRecords]
  /\ \A c \in Callers : AttemptsLeft(call[c])

LEMMA BreakerBounds ==
  /\ MaxAttempts \in Nat \ {0} /\ OpenTimeout \in Nat \ {0} /\ ManyFailures \in Nat
  /\ Out \in CallerRecords /\ AttemptsLeft(Out)
  /\ NoBreaker \in BreakerRecords /\ Closed \in BreakerRecords
<1>1. MaxAttempts \in Nat \ {0} /\ OpenTimeout \in Nat \ {0} /\ ManyFailures \in Nat
  BY BreakerAssumption, FS_CardinalityType DEF ManyFailures
<1> QED
  BY <1>1 DEF Out, CallerRecords, AttemptsLeft, NoBreaker, Closed, BreakerRecords

LEMMA CallerMoves ==
  ASSUME NEW r \in CallerRecords, NEW a \in {"out", "check", "running", "waiting"}
  PROVE  /\ [r EXCEPT !.at = a] \in CallerRecords
         /\ [r EXCEPT !.at = a].at = a /\ [r EXCEPT !.at = a].attempts = r.attempts
  BY DEF CallerRecords

\* A step of a caller c that leaves it at r.
LEMMA CallerSet ==
  ASSUME BreakerShape, NEW c \in Callers, NEW r \in CallerRecords, AttemptsLeft(r),
         call' = [call EXCEPT ![c] = r], breaker' \in BreakerRecords
  PROVE  BreakerShape'
<1>1. call' \in [Callers -> CallerRecords]
  BY DEF BreakerShape
<1>2. \A d \in Callers : call'[d] = IF d = c THEN r ELSE call[d]
  BY DEF BreakerShape
<1>3. \A d \in Callers : AttemptsLeft(call[d]) /\ AttemptsLeft(r)
  BY DEF BreakerShape
<1>4. \A d \in Callers : AttemptsLeft(call'[d])
  BY <1>2, <1>3
<1>5. ManyFailures' = ManyFailures
  BY DEF ManyFailures
<1> QED
  BY <1>1, <1>4, <1>5 DEF BreakerShape, BreakerRecords, CallerRecords, AttemptsLeft

LEMMA FailureCounted ==
  ASSUME breaker \in BreakerRecords, RecordFailure
  PROVE  breaker' \in BreakerRecords
<1> DEFINE n == IF breaker.failures + 1 > ManyFailures THEN ManyFailures
                ELSE breaker.failures + 1
           o == breaker.open \/ breaker.failures + 1 >= MaxAttempts
           a == IF breaker.open THEN breaker.age ELSE 0
<1>1. breaker' = [breaker EXCEPT !.failures = n, !.open = o, !.age = a]
  BY DEF RecordFailure
<1>2. n \in 0..ManyFailures
  BY BreakerBounds DEF BreakerRecords
<1>3. a \in 0..OpenTimeout
  BY BreakerBounds DEF BreakerRecords
<1>4. o \in BOOLEAN
  OBVIOUS
<1> HIDE DEF n, o, a
<1> QED
  BY <1>1, <1>2, <1>3, <1>4 DEF BreakerRecords

LEMMA BreakerShapeStep == BreakerShape /\ [BreakerNext]_BreakerVars => BreakerShape'
<1> SUFFICES ASSUME BreakerShape, [BreakerNext]_BreakerVars PROVE BreakerShape'
  OBVIOUS
<1>a. breaker \in BreakerRecords /\ call \in [Callers -> CallerRecords]
  BY DEF BreakerShape
<1>b. RecordSuccess => breaker' \in BreakerRecords
  BY BreakerBounds DEF RecordSuccess
<1>c. \A c \in Callers : /\ call[c] \in CallerRecords
                         /\ call[c].attempts \in 0..MaxAttempts
                         /\ call[c].at # "running" => call[c].attempts < MaxAttempts
  BY <1>a DEF BreakerShape, CallerRecords, AttemptsLeft
<1>1. ASSUME NEW c \in Callers, CallBegins(c) PROVE BreakerShape'
  <2> DEFINE r == [call[c] EXCEPT !.at = "check"]
  <2>1. call' = [call EXCEPT ![c] = r] /\ breaker' = breaker /\ call[c].at = "out"
    BY <1>1 DEF CallBegins, Out
  <2>2. r \in CallerRecords /\ AttemptsLeft(r)
    BY <1>c, <2>1, CallerMoves DEF AttemptsLeft
  <2> HIDE DEF r
  <2> QED
    BY <1>a, <2>1, <2>2, CallerSet
<1>2. ASSUME NEW c \in Callers, Admit(c) PROVE BreakerShape'
  <2> DEFINE r == [at |-> "running", attempts |-> call[c].attempts + 1]
  <2>1. breaker' \in BreakerRecords
    BY <1>2, <1>a, BreakerBounds DEF Admit
  <2>2. call' = [call EXCEPT ![c] = Out] \/ call' = [call EXCEPT ![c] = r]
    BY <1>2 DEF Admit
  <2>3. call[c].attempts + 1 \in 0..MaxAttempts
    <3>1. call[c].at = "check"
      BY <1>2 DEF Admit
    <3> QED
      BY <1>c, <3>1, BreakerBounds
  <2>4. r \in CallerRecords /\ AttemptsLeft(r)
    BY <2>3 DEF CallerRecords, AttemptsLeft
  <2> HIDE DEF r
  <2>5. CASE call' = [call EXCEPT ![c] = Out]
    BY <2>1, <2>5, BreakerBounds, CallerSet
  <2>6. CASE call' = [call EXCEPT ![c] = r]
    BY <2>1, <2>4, <2>6, CallerSet
  <2> QED
    BY <2>2, <2>5, <2>6
<1>3. ASSUME NEW c \in Callers, Succeed(c) PROVE BreakerShape'
  <2>1. call' = [call EXCEPT ![c] = Out] /\ breaker' \in BreakerRecords
    BY <1>3, <1>b DEF Succeed
  <2> QED
    BY <2>1, BreakerBounds, CallerSet
<1>4. ASSUME NEW c \in Callers, Fail(c) PROVE BreakerShape'
  <2> DEFINE r == [call[c] EXCEPT !.at = "waiting"]
  <2>1. breaker' \in BreakerRecords
    BY <1>4, <1>a, FailureCounted DEF Fail
  <2>2. PICK next : call' = [call EXCEPT ![c] =
                               IF next = "out" \/ call[c].attempts >= MaxAttempts
                               THEN Out ELSE r]
    BY <1>4 DEF Fail
  <2>3. CASE next = "out" \/ call[c].attempts >= MaxAttempts
    BY <2>1, <2>2, <2>3, BreakerBounds, CallerSet
  <2>4. CASE ~(next = "out" \/ call[c].attempts >= MaxAttempts)
    <3>1. r \in CallerRecords /\ AttemptsLeft(r)
      <4>1. call[c].attempts < MaxAttempts
        BY <1>c, <2>4, BreakerBounds
      <4> QED
        BY <1>c, <4>1, CallerMoves DEF AttemptsLeft
    <3>2. call' = [call EXCEPT ![c] = r]
      BY <2>2, <2>4
    <3> HIDE DEF r
    <3> QED
      BY <2>1, <3>1, <3>2, CallerSet
  <2> QED
    BY <2>3, <2>4
<1>5. ASSUME NEW c \in Callers, BackoffEnds(c) PROVE BreakerShape'
  <2> DEFINE r == [call[c] EXCEPT !.at = "check"]
  <2>1. call' = [call EXCEPT ![c] = r] /\ breaker' = breaker /\ call[c].at = "waiting"
    BY <1>5 DEF BackoffEnds
  <2>2. r \in CallerRecords /\ AttemptsLeft(r)
    BY <1>c, <2>1, CallerMoves DEF AttemptsLeft
  <2> HIDE DEF r
  <2> QED
    BY <1>a, <2>1, <2>2, CallerSet
<1>6. CASE ResetBreaker
  BY <1>6, <1>b DEF ResetBreaker, BreakerShape, BreakerRecords, CallerRecords,
                    ManyFailures, AttemptsLeft
<1>7. CASE BreakerAges
  <2>1. breaker' \in BreakerRecords
    BY <1>7, <1>a, BreakerBounds DEF BreakerAges, BreakerRecords
  <2> QED
    BY <1>7, <2>1 DEF BreakerAges, BreakerShape, BreakerRecords, CallerRecords,
                      ManyFailures, AttemptsLeft
<1>8. CASE UNCHANGED BreakerVars
  BY <1>8 DEF BreakerVars, BreakerShape, BreakerRecords, CallerRecords, ManyFailures,
              AttemptsLeft
<1> QED
  BY <1>1, <1>2, <1>3, <1>4, <1>5, <1>6, <1>7, <1>8 DEF BreakerNext

LEMMA BreakerTypes == BreakerSpec => []BreakerTypeOK
<1>1. BreakerInit => BreakerShape
  BY BreakerBounds DEF BreakerInit, BreakerShape
<1>2. BreakerShape => BreakerTypeOK
  BY DEF BreakerShape, BreakerTypeOK, BreakerRecords, CallerRecords
<1> QED
  BY <1>1, <1>2, BreakerShapeStep, PTL DEF BreakerSpec

LEMMA MachineTypes == MachineSpec => []MachineTypeOK
<1>1. MachineInit => MachineTypeOK
  BY DEF MachineInit, MachineTypeOK, Parked, MountStates
<1>2. MachineTypeOK /\ [MachineNext]_MachineVars => MachineTypeOK'
  <2> SUFFICES ASSUME MachineTypeOK, [MachineNext]_MachineVars PROVE MachineTypeOK'
    OBVIOUS
  <2>1. ASSUME NEW k \in Movers, NEW t \in MountStates, CheckTransition(k, t)
        PROVE  MachineTypeOK'
    BY <2>1 DEF CheckTransition, MachineTypeOK
  <2>2. ASSUME NEW k \in Movers, WriteState(k) PROVE MachineTypeOK'
    BY <2>2 DEF WriteState, MachineTypeOK
  <2>3. ASSUME NEW k \in Movers, RecordTransition(k) PROVE MachineTypeOK'
    <3> DEFINE longer == Append(history, [from |-> mover[k].from, to |-> mover[k].to])
    <3>1. /\ longer \in Seq([from: MountStates, to: MountStates]) /\ Len(longer) > 0
      BY DEF MachineTypeOK
    <3>2. history' \in {longer, Tail(longer)}
      BY <2>3 DEF RecordTransition
    <3> HIDE DEF longer
    <3>3. history' \in Seq([from: MountStates, to: MountStates])
      BY <3>1, <3>2
    <3>4. mover' = [mover EXCEPT ![k] = Parked] /\ currentState' = currentState
      BY <2>3 DEF RecordTransition
    <3> QED
      BY <3>3, <3>4 DEF MachineTypeOK, Parked, MountStates
  <2>4. CASE UNCHANGED MachineVars
    BY <2>4 DEF MachineVars, MachineTypeOK
  <2> QED
    BY <2>1, <2>2, <2>3, <2>4 DEF MachineNext
<1> QED
  BY <1>1, <1>2, PTL DEF MachineSpec

LEMMA SchedulerTypesHold == SchedulerSpec => []SchedulerTypeOK
<1>1. SchedulerInv => SchedulerTypeOK
  BY DEF SchedulerInv, SchedulerTypes, SchedulerTypeOK
<1> QED
  BY <1>1, SchedulerInitInv, SchedulerStep, PTL DEF SchedulerSpec


LEMMA SyncTypes == SyncSpec => []SyncTypeOK
<1>1. SyncInv => SyncTypeOK
  BY DEF SyncInv
<1> QED
  BY <1>1, SyncInitInv, SyncStep, PTL DEF SyncSpec

LEMMA GraphTypesHold == GraphSpec => []GraphTypeOK
<1>1. GraphInv => GraphTypeOK
  BY DEF GraphInv
<1> QED
  BY <1>1, GraphInitInv, GraphStep, PTL DEF GraphSpec

LEMMA LocksTypes == LocksSpec => []LocksTypeOK
<1>1. LocksInv => LocksTypeOK
  BY DEF LocksInv
<1> QED
  BY <1>1, LocksInitInv, LocksStep, PTL DEF LocksSpec

(* The types of CredentialBackup *)

\* No backup beyond the bound is made, worked on or doomed.
BackupBounds ==
  /\ Made \subseteq Backups
  /\ \A t \in BackupTasks : job[t].on \in 0..MaxBackups /\ job[t].doomed \subseteq Backups

LEMMA JobWithin ==
  ASSUME BackupTypes, BackupBounds, NEW t \in BackupTasks, NEW r \in BackupJobs,
         job' = [job EXCEPT ![t] = r], Made' \subseteq Backups,
         r.on \in 0..MaxBackups, r.doomed \subseteq Backups
  PROVE  BackupBounds'
<1>1. \A s \in BackupTasks : job'[s] = IF s = t THEN r ELSE job[s]
  BY DEF BackupTypes
<1> QED
  BY <1>1 DEF BackupBounds, Backups

LEMMA BackupBoundsStep ==
  ASSUME BackupInv, BackupInv', BackupBounds, [BackupNext]_BackupVars
  PROVE  BackupBounds'
<1>a. BackupTypes /\ \A t \in BackupTasks : job[t] \in BackupJobs
  BY DEF BackupInv, BackupTypes
<1>b. /\ MaxBackups \in Nat /\ 0 \in 0..MaxBackups /\ {} \subseteq Backups
      /\ Off \in BackupJobs /\ Off.on = 0 /\ Off.doomed = {}
  BY BackupAssumption DEF Off, BackupJobs, BackupStates
<1>c. \A t \in BackupTasks : /\ job[t].on \in 0..MaxBackups /\ job[t].doomed \subseteq Backups
                              /\ job[t].on \in Nat /\ job[t].doomed \subseteq Nat
  BY <1>a DEF BackupBounds, BackupJobs
<1>d. made' = made => Made' = Made /\ Made \subseteq Backups
  BY DEF Made, BackupBounds
<1>1. ASSUME NEW t \in BackupTasks, NEW strategy \in Strategies, StoreBackup(t, strategy)
      PROVE  BackupBounds'
  <2> PICK b : b = Cardinality(Made) + 1
    OBVIOUS
  <2>1. /\ b \in Backups /\ made' = [c \in 1..b |-> IF c = b THEN strategy ELSE made[c]]
        /\ job' = [job EXCEPT ![t] = [at |-> "list", on |-> b, doomed |-> {}]]
    BY <1>1 DEF StoreBackup
  <2>2. Made' = 1..b /\ b \in 1..MaxBackups
    BY <2>1 DEF Made, Backups
  <2>3. Made' \subseteq Backups
    BY <1>b, <2>2 DEF Backups
  <2> PICK r : r = [at |-> "list", on |-> b, doomed |-> {}]
    OBVIOUS
  <2>4. r \in BackupJobs /\ r.on \in 0..MaxBackups /\ r.doomed \subseteq Backups
    BY <2>2 DEF BackupJobs, BackupStates
  <2>5. job' = [job EXCEPT ![t] = r]
    BY <2>1
  <2> QED
    BY <1>a, <2>3, <2>4, <2>5, JobWithin
<1>2. ASSUME NEW t \in BackupTasks, NEW a \in BackupStates,
             job' = [job EXCEPT ![t].at = a], made' = made
      PROVE  BackupBounds'
  <2> PICK r : r = [job[t] EXCEPT !.at = a]
    OBVIOUS
  <2>1. r \in BackupJobs /\ r.on = job[t].on /\ r.doomed = job[t].doomed
    BY <1>a DEF BackupJobs
  <2> QED
    BY <1>a, <1>c, <1>d, <1>2, <2>1, JobWithin
<1>3. ASSUME NEW t \in BackupTasks, SortBackups(t) PROVE BackupBounds'
  <2> PICK r : r = [at |-> "clean", on |-> 0, doomed |-> TooOld]
    OBVIOUS
  <2>1. TooOld \subseteq Made
    BY DEF BackupInv, BackupTypes, TooOld
  <2>2. TooOld \subseteq Backups /\ TooOld \subseteq Nat
    BY <2>1 DEF BackupBounds, Backups
  <2>3. r \in BackupJobs /\ r.on \in 0..MaxBackups /\ r.doomed \subseteq Backups
    BY <1>b, <2>2 DEF BackupJobs, BackupStates
  <2> QED
    BY <1>a, <1>d, <1>3, <2>3, JobWithin DEF SortBackups
<1>4. ASSUME NEW t \in BackupTasks, job' = [job EXCEPT ![t] = Off], made' = made
      PROVE  BackupBounds'
  <2> PICK r : r = Off
    OBVIOUS
  <2>1. r \in BackupJobs /\ r.on \in 0..MaxBackups /\ r.doomed \subseteq Backups
    BY <1>b
  <2>2. Made' \subseteq Backups /\ job' = [job EXCEPT ![t] = r]
    BY <1>d, <1>4
  <2> QED
    BY <1>a, <2>1, <2>2, JobWithin
<1>5. ASSUME NEW t \in BackupTasks, NEW b \in Made, DeleteData(t, b) \/ DeleteFails(t, b)
      PROVE  BackupBounds'
  <2>1. made' = made
    BY <1>5 DEF DeleteData, DeleteFails
  <2>2. job[t].doomed \ {b} \subseteq Backups /\ job[t].doomed \ {b} \subseteq Nat
    BY <1>c
  <2>3. b \in 0..MaxBackups /\ b \in Nat
    <3>1. b \in Backups
      BY <1>5 DEF BackupBounds
    <3> QED
      BY <1>b, <3>1 DEF Backups
  <2>4. CASE job' = [job EXCEPT ![t] = [at |-> "forget", on |-> b,
                                        doomed |-> job[t].doomed \ {b}]]
    <3>1. [at |-> "forget", on |-> b, doomed |-> job[t].doomed \ {b}] \in BackupJobs
      BY <2>2, <2>3 DEF BackupJobs, BackupStates
    <3> QED
      BY <1>a, <1>d, <2>1, <2>2, <2>3, <2>4, <3>1, JobWithin
  <2>5. CASE job' = [job EXCEPT ![t].doomed = job[t].doomed \ {b}]
    <3> PICK r : r = [job[t] EXCEPT !.doomed = job[t].doomed \ {b}]
      OBVIOUS
    <3>1. r \in BackupJobs /\ r.on = job[t].on /\ r.doomed = job[t].doomed \ {b}
      BY <1>a, <2>2 DEF BackupJobs
    <3> QED
      BY <1>a, <1>c, <1>d, <2>1, <2>2, <2>5, <3>1, JobWithin
  <2> QED
    BY <1>5, <2>4, <2>5 DEF DeleteData, DeleteFails
<1>6. ASSUME NEW t \in BackupTasks, ForgetBackup(t) PROVE BackupBounds'
  <2>1. made' = made
    BY <1>6 DEF ForgetBackup
  <2> PICK r : r = IF job[t].doomed = {} THEN Off
                   ELSE [job[t] EXCEPT !.at = "clean", !.on = 0]
    OBVIOUS
  <2>2. job' = [job EXCEPT ![t] = r]
    BY <1>6 DEF ForgetBackup
  <2>3. r \in BackupJobs /\ r.on \in 0..MaxBackups /\ r.doomed \subseteq Backups
    <3>1. [job[t] EXCEPT !.at = "clean", !.on = 0]
            = [at |-> "clean", on |-> 0, doomed |-> job[t].doomed]
      BY <1>a, CleanRecord
    <3> QED
      BY <1>b, <1>c, <3>1 DEF BackupJobs, BackupStates
  <2>4. Made' \subseteq Backups
    BY <1>d, <2>1
  <2> QED
    BY <1>a, <2>2, <2>3, <2>4, JobWithin
<1>7. CASE BackupRestart
  <2>1. job' = [t \in BackupTasks |-> Off] /\ Made' \subseteq Backups
    BY <1>7, <1>d DEF BackupRestart
  <2>2. \A t \in BackupTasks : job'[t] = Off
    BY <2>1
  <2> HIDE DEF Off
  <2> QED
    BY <1>b, <2>1, <2>2 DEF BackupBounds, Backups
<1>8. CASE UNCHANGED BackupVars
  BY <1>8, <1>d DEF BackupVars, BackupBounds, Backups
<1>9. ASSUME NEW t \in BackupTasks, ListBackup(t) PROVE BackupBounds'
  BY <1>2, <1>9 DEF ListBackup, BackupStates
<1>10. ASSUME NEW t \in BackupTasks, CleanEnds(t) PROVE BackupBounds'
  BY <1>4, <1>10 DEF CleanEnds
<1> QED
  BY <1>1, <1>3, <1>5, <1>6, <1>7, <1>8, <1>9, <1>10 DEF BackupNext

LEMMA BackupTypesHold == BackupSpec => []BackupTypeOK
<1>1. BackupInit => BackupBounds
  BY BackupAssumption DEF BackupInit, BackupBounds, Made, Off, Backups
<1>2. BackupInv /\ BackupBounds => BackupTypeOK
  <2> SUFFICES ASSUME BackupInv, BackupBounds PROVE BackupTypeOK
    OBVIOUS
  <2>1. \A b \in Made : made[b] \in Strategies
    BY DEF BackupInv, BackupTypes, Made
  <2>2. \A t \in BackupTasks :
          job[t] \in [at: {"idle", "list", "sort", "clean", "forget"},
                      on: 0..MaxBackups, doomed: SUBSET Backups]
    BY DEF BackupInv, BackupTypes, BackupBounds, BackupJobs, BackupStates
  <2> QED
    BY <2>1, <2>2 DEF BackupInv, BackupTypes, BackupBounds, BackupTypeOK
<1>3. BackupBounds /\ BackupInv /\ BackupInv' /\ [BackupNext]_BackupVars => BackupBounds'
  BY BackupBoundsStep
<1> QED
  BY <1>1, <1>2, <1>3, BackupInitInv, BackupStep, PTL DEF BackupSpec

(* The types of AuditLog: no more files than events *)

LogRecords == [at: AuditStates, event: 0..MaxEvents, link: 0..MaxEvents]

\* The events whose file may still be made, each with its own logger.
Opening == {logger[l].event :
              l \in {k \in Loggers : logger[k].at \in {"chain", "buffer", "open"}}}

AuditBounds ==
  /\ lastHash \in 0..MaxEvents
  /\ previous \in Seq(0..MaxEvents) /\ Len(previous) <= MaxEvents
  /\ buffer \in Seq(Events) /\ Len(buffer) <= BufferSize
  /\ logged \in Seq(SUBSET Events)
  /\ current \in 0..Len(logged) /\ writer \in 0..Len(logged)
  /\ rotated \in [1..BackupCount -> 0..MaxEvents]
  /\ forked \in BOOLEAN /\ raced \in BOOLEAN /\ halved \in BOOLEAN
  /\ unlogged \subseteq Events

LoggerBounds ==
  /\ logger \in [Loggers -> LogRecords]
  /\ \A l \in Loggers : logger[l].at # "idle" => logger[l].event \in 1..Len(previous)
  /\ \A k, l \in Loggers :
       logger[k].at # "idle" /\ logger[l].at # "idle" /\ logger[k].event = logger[l].event
         => k = l
  /\ Len(logged) + Cardinality(Opening) <= Len(previous)

LogBounds == AuditBounds /\ LoggerBounds

LEMMA OpeningEvents ==
  ASSUME LoggerBounds, Len(previous) \in Nat
  PROVE  /\ IsFiniteSet(Opening) /\ Cardinality(Opening) \in Nat
         /\ \A e : e \in Opening <=>
              \E l \in Loggers : /\ logger[l].at \in {"chain", "buffer", "open"}
                                 /\ logger[l].event = e
         /\ Opening \subseteq 1..Len(previous)
<1>1. \A e : e \in Opening <=>
        \E l \in Loggers : /\ logger[l].at \in {"chain", "buffer", "open"}
                           /\ logger[l].event = e
  BY DEF Opening
<1>2. Opening \subseteq 1..Len(previous)
  BY <1>1 DEF LoggerBounds
<1>3. IsFiniteSet(1..Len(previous))
  BY FS_Interval
<1>4. IsFiniteSet(Opening)
  BY <1>2, <1>3, FS_Subset
<1> QED
  BY <1>1, <1>2, <1>4, FS_CardinalityType

LEMMA OpeningNext ==
  \A e : e \in Opening' <=>
     \E l \in Loggers : /\ logger'[l].at \in {"chain", "buffer", "open"}
                        /\ logger'[l].event = e
BY DEF Opening

\* A logger that moves on, without another event.
LEMMA LoggerGoes ==
  ASSUME LoggerBounds, Len(previous) \in Nat, NEW l \in Loggers, NEW r \in LogRecords,
         logger' = [logger EXCEPT ![l] = r], UNCHANGED <<previous, logged>>,
         logger[l].at # "idle", r.at # "idle" => r.event = logger[l].event,
         r.at \in {"chain", "buffer", "open"} <=> logger[l].at \in {"chain", "buffer", "open"}
  PROVE  LoggerBounds'
<1>1. /\ logger' \in [Loggers -> LogRecords]
      /\ \A k \in Loggers : logger'[k] = IF k = l THEN r ELSE logger[k]
  BY DEF LoggerBounds
<1>2. LogRecords' = LogRecords
  BY DEF LogRecords
<1>3. \A k \in Loggers : /\ logger'[k].at # "idle" => logger[k].at # "idle"
                         /\ logger'[k].at # "idle" => logger'[k].event = logger[k].event
                         /\ logger'[k].at \in {"chain", "buffer", "open"} <=>
                              logger[k].at \in {"chain", "buffer", "open"}
  BY <1>1
<1>4. Opening' = Opening
  <2>1. \A e : e \in Opening' <=> e \in Opening
    BY <1>3, OpeningEvents, OpeningNext
  <2> QED
    BY <2>1
<1>5. \A k \in Loggers : logger'[k].at # "idle" => logger'[k].event \in 1..Len(previous')
  BY <1>3 DEF LoggerBounds
<1>6. ASSUME NEW j \in Loggers, NEW k \in Loggers, logger'[j].at # "idle",
             logger'[k].at # "idle", logger'[j].event = logger'[k].event
      PROVE  j = k
  <2>1. logger[j].at # "idle" /\ logger[k].at # "idle" /\ logger[j].event = logger[k].event
    BY <1>3, <1>6
  <2> QED
    BY <2>1 DEF LoggerBounds
<1>7. Len(logged') + Cardinality(Opening') <= Len(previous')
  BY <1>4 DEF LoggerBounds
<1> QED
  BY <1>1, <1>2, <1>5, <1>6, <1>7 DEF LoggerBounds

LEMMA LogBoundsStep == LogBounds /\ [AuditNext]_AuditVars => LogBounds'
<1> SUFFICES ASSUME LogBounds, [AuditNext]_AuditVars PROVE LogBounds'
  OBVIOUS
<1>a. /\ MaxEvents \in Nat \ {0} /\ BufferSize \in Nat \ {0} /\ BackupCount \in Nat \ {0}
      /\ Nothing = 0 /\ Events = 1..MaxEvents
  BY AuditAssumption DEF Nothing, Events
<1>b. AuditBounds /\ LoggerBounds /\ Len(previous) \in Nat /\ Len(logged) \in Nat
  BY DEF LogBounds, AuditBounds
<1>c. /\ IsFiniteSet(Opening) /\ Cardinality(Opening) \in Nat
      /\ Opening \subseteq 1..Len(previous)
      /\ Len(logged) + Cardinality(Opening) <= Len(previous)
  BY <1>b, OpeningEvents DEF LoggerBounds
<1>d. Len(previous) <= MaxEvents /\ Len(logged) <= MaxEvents
  BY <1>a, <1>b, <1>c DEF AuditBounds
<1>e. \A l \in Loggers : /\ logger[l] \in LogRecords
                         /\ logger[l].at # "idle" => logger[l].event \in Events
                         /\ logger[l].link \in 0..MaxEvents
  <2>1. \A l \in Loggers : logger[l] \in LogRecords
    BY <1>b DEF LoggerBounds
  <2> QED
    BY <1>a, <1>b, <1>d, <2>1 DEF LoggerBounds, LogRecords
<1>f. Quiet \in LogRecords /\ Quiet.at = "idle"
  BY <1>a DEF Quiet, LogRecords, AuditStates
<1>g. Shifted \in [1..BackupCount -> 0..MaxEvents]
  <2>1. rotated \in [1..BackupCount -> 0..MaxEvents] /\ Nothing \in 0..MaxEvents
    BY <1>a, <1>b DEF AuditBounds
  <2>2. \A n \in 1..BackupCount : n > 1 => n - 1 \in 1..BackupCount
    BY <1>a
  <2> QED
    BY <2>1, <2>2 DEF Shifted
<1>1. ASSUME NEW l \in Loggers, ProcessEvent(l) PROVE LogBounds'
  <2> PICK e : e = Len(previous) + 1
    OBVIOUS
  <2> PICK r : r = [at |-> "chain", event |-> e, link |-> lastHash]
    OBVIOUS
  <2>1. /\ logger[l] = Quiet /\ e \in 1..MaxEvents /\ previous' = Append(previous, lastHash)
        /\ logger' = [logger EXCEPT ![l] = r]
        /\ forked' = (forked \/ \E k \in Loggers : logger[k].at = "chain")
        /\ UNCHANGED <<lastHash, buffer, current, writer, rotated, logged, raced, halved,
                       unlogged>>
    BY <1>1, <1>a DEF ProcessEvent
  <2>2. /\ previous' \in Seq(0..MaxEvents) /\ Len(previous') = e
    BY <1>b, <2>1 DEF AuditBounds
  <2>3. forked' \in BOOLEAN
    BY <2>1
  <2>4. AuditBounds'
    BY <1>b, <2>1, <2>2, <2>3 DEF AuditBounds, Events
  <2>5. r \in LogRecords /\ r.at = "chain" /\ r.event = e
    BY <1>b, <2>1 DEF LogRecords, AuditStates, AuditBounds
  <2>6. /\ logger' \in [Loggers -> LogRecords]
        /\ \A k \in Loggers : logger'[k] = IF k = l THEN r ELSE logger[k]
    BY <1>b, <2>1, <2>5 DEF LoggerBounds
  <2>7. \A k \in Loggers : logger[k].at # "idle" =>
          logger[k].event \in 1..Len(previous) /\ logger[k].event # e
    BY <1>b DEF LoggerBounds
  <2>8. logger[l].at = "idle"
    BY <1>f, <2>1
  <2>9. Opening' = Opening \cup {e} /\ e \notin Opening
    <3>1. \A f : f \in Opening' <=> f \in Opening \/ f = e
      BY <1>b, <2>5, <2>6, <2>8, OpeningEvents, OpeningNext
    <3>2. e \notin Opening
      BY <1>b, <1>c
    <3> QED
      BY <3>1, <3>2
  <2>10. Cardinality(Opening') = Cardinality(Opening) + 1
    BY <1>c, <2>9, FS_AddElement
  <2>11. \A k \in Loggers : logger'[k].at # "idle" => logger'[k].event \in 1..Len(previous')
    BY <1>b, <2>2, <2>5, <2>6, <2>7
  <2>12. \A j, k \in Loggers :
           logger'[j].at # "idle" /\ logger'[k].at # "idle" /\ logger'[j].event = logger'[k].event
             => j = k
    BY <1>b, <2>5, <2>6, <2>7 DEF LoggerBounds
  <2>13. Len(logged') + Cardinality(Opening') <= Len(previous')
    BY <1>b, <1>c, <2>1, <2>2, <2>10
  <2> QED
    BY <2>4, <2>6, <2>11, <2>12, <2>13 DEF LogBounds, LoggerBounds, LogRecords
<1>2. ASSUME NEW l \in Loggers, ChainEvent(l) PROVE LogBounds'
  <2> PICK r : r = [logger[l] EXCEPT !.at = "buffer"]
    OBVIOUS
  <2>1. r \in LogRecords /\ r.at = "buffer" /\ r.event = logger[l].event
    BY <1>e DEF LogRecords, AuditStates
  <2>2. LoggerBounds'
    BY <1>2, <1>b, <2>1, LoggerGoes DEF ChainEvent
  <2>3. lastHash' \in 0..MaxEvents
    BY <1>2, <1>a, <1>e DEF ChainEvent
  <2> QED
    BY <1>2, <1>b, <2>2, <2>3 DEF LogBounds, AuditBounds, ChainEvent, Events
<1>3. ASSUME NEW l \in Loggers, BufferEvent(l) PROVE LogBounds'
  <2> PICK r : r = [logger[l] EXCEPT !.at = "open"]
    OBVIOUS
  <2>1. r \in LogRecords /\ r.at = "open" /\ r.event = logger[l].event
    BY <1>e DEF LogRecords, AuditStates
  <2>2. LoggerBounds'
    BY <1>3, <1>b, <2>1, LoggerGoes DEF BufferEvent
  <2> PICK longer : longer = Append(buffer, logger[l].event)
    OBVIOUS
  <2>3. longer \in Seq(Events) /\ Len(longer) = Len(buffer) + 1 /\ Len(buffer) \in Nat
        /\ Len(buffer) <= BufferSize
    BY <1>3, <1>b, <1>e DEF AuditBounds, BufferEvent
  <2>4. buffer' = IF Len(longer) > BufferSize THEN Tail(longer) ELSE longer
    BY <1>3 DEF BufferEvent
  <2>5. buffer' \in Seq(Events) /\ Len(buffer') <= BufferSize
    <3>1. longer # <<>> /\ Tail(longer) \in Seq(Events) /\ Len(Tail(longer)) = Len(longer) - 1
      BY <2>3
    <3>2. CASE Len(longer) > BufferSize
      BY <1>a, <2>3, <2>4, <3>1, <3>2
    <3>3. CASE ~(Len(longer) > BufferSize)
      BY <1>a, <2>3, <2>4, <3>3
    <3> QED
      BY <3>2, <3>3
  <2> QED
    BY <1>3, <1>b, <2>2, <2>5 DEF LogBounds, AuditBounds, BufferEvent, Events
<1>4. ASSUME NEW l \in Loggers, OpenWriter(l) PROVE LogBounds'
  <2> PICK file : file = IF current # Nothing THEN current ELSE Len(logged) + 1
    OBVIOUS
  <2> PICK r : r = [logger[l] EXCEPT !.at = "write"]
    OBVIOUS
  <2>1. /\ logger[l].at = "open" /\ logger' = [logger EXCEPT ![l] = r]
        /\ IF writer # Nothing THEN UNCHANGED <<writer, current, logged>>
           ELSE /\ writer' = file /\ current' = file
                /\ logged' = IF file > Len(logged) THEN Append(logged, {}) ELSE logged
        /\ raced' = (raced \/ Rotating # {})
        /\ UNCHANGED <<lastHash, previous, buffer, rotated, forked, halved, unlogged>>
    BY <1>4 DEF OpenWriter
  <2>2. r \in LogRecords /\ r.at = "write" /\ r.event = logger[l].event
    BY <1>e DEF LogRecords, AuditStates
  <2>3. current \in 0..Len(logged) /\ writer \in 0..Len(logged)
    BY <1>b DEF AuditBounds
  <2>4. /\ Append(logged, {}) \in Seq(SUBSET Events)
        /\ Len(Append(logged, {})) = Len(logged) + 1
    BY <1>b DEF AuditBounds
  <2>5. /\ logged' \in Seq(SUBSET Events) /\ Len(logged') \in {Len(logged), Len(logged) + 1}
        /\ current' \in 0..Len(logged') /\ writer' \in 0..Len(logged')
    <3>1. CASE writer # Nothing
      BY <1>b, <2>1, <2>3, <3>1 DEF AuditBounds
    <3>2. CASE writer = Nothing /\ current # Nothing
      <4>1. file = current /\ logged' = logged
        BY <1>a, <1>b, <2>1, <2>3, <3>2
      <4> QED
        BY <1>b, <2>1, <2>3, <3>2, <4>1 DEF AuditBounds
    <3>3. CASE writer = Nothing /\ current = Nothing
      <4>1. file = Len(logged) + 1 /\ logged' = Append(logged, {})
        BY <1>a, <1>b, <2>1, <2>3, <3>3
      <4> QED
        BY <1>b, <2>1, <2>4, <3>3, <4>1
    <3> QED
      BY <3>1, <3>2, <3>3
  <2>6. /\ logger' \in [Loggers -> LogRecords]
        /\ \A k \in Loggers : logger'[k] = IF k = l THEN r ELSE logger[k]
    BY <1>b, <2>1, <2>2 DEF LoggerBounds
  <2>7. Opening' = Opening \ {logger[l].event} /\ logger[l].event \in Opening
    <3>1. logger[l].event \in Opening
      BY <1>b, <2>1, OpeningEvents
    <3>2. \A k \in Loggers : /\ logger'[k].at \in {"chain", "buffer", "open"}
                                  <=> k # l /\ logger[k].at \in {"chain", "buffer", "open"}
                             /\ logger'[k].event = logger[k].event
      BY <2>2, <2>6
    <3>3. ASSUME NEW k \in Loggers, logger[k].at \in {"chain", "buffer", "open"},
                 logger[k].event = logger[l].event
          PROVE  k = l
      <4>1. logger[l].at # "idle" /\ logger[k].at # "idle"
        BY <2>1, <3>3
      <4> QED
        BY <1>b, <3>3, <4>1 DEF LoggerBounds
    <3>4. \A f : f \in Opening' <=> f \in Opening /\ f # logger[l].event
      BY <1>b, <3>2, <3>3, OpeningEvents, OpeningNext
    <3> QED
      BY <3>1, <3>4
  <2>8. Cardinality(Opening') = Cardinality(Opening) - 1
    BY <1>c, <2>7, FS_RemoveElement
  <2>9. \A k \in Loggers : /\ logger'[k].at # "idle" => logger[k].at # "idle"
                           /\ logger'[k].event = logger[k].event
    BY <2>1, <2>2, <2>6
  <2>10. LoggerBounds'
    <3>1. Len(logged') + Cardinality(Opening') <= Len(previous')
      BY <1>b, <1>c, <2>1, <2>5, <2>8
    <3> QED
      BY <1>b, <2>1, <2>6, <2>9, <3>1 DEF LoggerBounds, LogRecords
  <2>11. raced' \in BOOLEAN
    BY <2>1
  <2> QED
    BY <1>b, <2>1, <2>5, <2>10, <2>11 DEF LogBounds, AuditBounds, Events
<1>5. ASSUME NEW l \in Loggers, WriteEvent(l) PROVE LogBounds'
  <2> PICK r : r = [logger[l] EXCEPT !.at = "check"]
    OBVIOUS
  <2>1. r \in LogRecords /\ r.at = "check" /\ r.event = logger[l].event
    BY <1>e DEF LogRecords, AuditStates
  <2>2. /\ logger[l].at = "write" /\ logger' = [logger EXCEPT ![l] = r]
        /\ logged' = IF writer = Nothing THEN logged
                     ELSE [logged EXCEPT ![writer] = logged[writer] \cup {logger[l].event}]
        /\ raced' = (raced \/ Rotating # {})
        /\ UNCHANGED <<lastHash, previous, buffer, current, writer, rotated, forked, halved,
                       unlogged>>
    BY <1>5 DEF WriteEvent
  <2>3. logged' \in Seq(SUBSET Events) /\ Len(logged') = Len(logged)
    <3>1. CASE writer = Nothing
      BY <1>b, <2>2, <3>1 DEF AuditBounds
    <3>2. CASE writer # Nothing
      <4>1. writer \in 1..Len(logged) /\ logger[l].event \in Events
            /\ logged \in Seq(SUBSET Events)
        BY <1>a, <1>b, <1>e, <2>2, <3>2 DEF AuditBounds
      <4>2. logged[writer] \cup {logger[l].event} \in SUBSET Events
        BY <4>1
      <4> QED
        BY <2>2, <3>2, <4>1, <4>2
    <3> QED
      BY <3>1, <3>2
  <2>4. LoggerBounds'
    <3>1. /\ \A k \in Loggers : logger'[k] = IF k = l THEN r ELSE logger[k]
          /\ logger' \in [Loggers -> LogRecords]
      BY <1>b, <2>1, <2>2 DEF LoggerBounds
    <3>2. \A k \in Loggers : /\ logger'[k].at # "idle" => logger[k].at # "idle"
                             /\ logger'[k].event = logger[k].event
                             /\ logger'[k].at \in {"chain", "buffer", "open"} <=>
                                  logger[k].at \in {"chain", "buffer", "open"}
      BY <2>1, <2>2, <3>1
    <3>3. Opening' = Opening
      <4>1. \A e : e \in Opening' <=> e \in Opening
        BY <1>b, <3>2, OpeningEvents, OpeningNext
      <4> QED
        BY <4>1
    <3> QED
      BY <1>b, <2>2, <2>3, <3>1, <3>2, <3>3 DEF LoggerBounds, LogRecords
  <2>5. raced' \in BOOLEAN
    BY <2>2
  <2> QED
    BY <1>b, <2>2, <2>3, <2>4, <2>5 DEF LogBounds, AuditBounds, Events
<1>6. ASSUME NEW l \in Loggers, CheckRotation(l) PROVE LogBounds'
  <2> PICK r : r = [logger[l] EXCEPT !.at = "close"]
    OBVIOUS
  <2>1. r \in LogRecords /\ r.at = "close" /\ r.event = logger[l].event
    BY <1>e DEF LogRecords, AuditStates
  <2>2. /\ logger[l].at = "check"
        /\ UNCHANGED <<lastHash, previous, buffer, current, writer, rotated, logged,
                       forked, raced, halved, unlogged>>
        /\ \/ logger' = [logger EXCEPT ![l] = r]
           \/ logger' = [logger EXCEPT ![l] = Quiet]
    BY <1>6 DEF CheckRotation
  <2>3. LoggerBounds'
    <3>1. CASE logger' = [logger EXCEPT ![l] = r]
      BY <1>b, <2>1, <2>2, <3>1, LoggerGoes
    <3>2. CASE logger' = [logger EXCEPT ![l] = Quiet]
      BY <1>b, <1>f, <2>2, <3>2, LoggerGoes
    <3> QED
      BY <2>2, <3>1, <3>2
  <2> QED
    BY <1>b, <2>2, <2>3 DEF LogBounds, AuditBounds, Events
<1>9. ASSUME NEW l \in Loggers, CloseWriter(l) PROVE LogBounds'
  <2> PICK r : r = [logger[l] EXCEPT !.at = "rename"]
    OBVIOUS
  <2>1. r \in LogRecords /\ r.at = "rename" /\ r.event = logger[l].event
    BY <1>e DEF LogRecords, AuditStates
  <2>2. /\ logger[l].at = "close" /\ writer' = Nothing
        /\ logger' = [logger EXCEPT ![l] = r]
        /\ UNCHANGED <<lastHash, previous, buffer, current, rotated, logged, forked,
                       halved, unlogged>>
        /\ raced' = (raced \/ ~FileIsFull \/ Rotating # {}
                          \/ \E k \in Loggers : logger[k].at = "write")
    BY <1>9 DEF CloseWriter
  <2>3. LoggerBounds'
    BY <1>b, <2>1, <2>2, LoggerGoes
  <2>4. raced' \in BOOLEAN /\ writer' \in 0..Len(logged')
    BY <1>a, <1>b, <2>2
  <2> QED
    BY <1>b, <2>2, <2>3, <2>4 DEF LogBounds, AuditBounds, Events
<1>10. ASSUME NEW l \in Loggers, WriteFails(l) PROVE LogBounds'
  <2>1. /\ \/ logged' = logged
           \/ writer # Nothing /\ logged' = [logged EXCEPT ![writer] = @ \cup {logger[l].event}]
        /\ unlogged' = unlogged \cup {logger[l].event} /\ logger[l].at \in {"open", "write"}
        /\ logger' = [logger EXCEPT ![l] = Quiet]
        /\ UNCHANGED <<lastHash, previous, buffer, current, writer, rotated, forked, raced,
                       halved>>
    BY <1>10 DEF WriteFails
  <2>2. logged' \in Seq(SUBSET Events) /\ Len(logged') = Len(logged)
    <3>1. CASE logged' = logged
      BY <1>b, <3>1 DEF AuditBounds
    <3>2. CASE writer # Nothing /\ logged' = [logged EXCEPT ![writer] = @ \cup {logger[l].event}]
      <4>1. writer \in 1..Len(logged) /\ logger[l].event \in Events
            /\ logged \in Seq(SUBSET Events)
        BY <1>a, <1>b, <1>e, <2>1, <3>2 DEF AuditBounds
      <4>2. logged[writer] \cup {logger[l].event} \in SUBSET Events
        BY <4>1
      <4> QED
        BY <3>2, <4>1, <4>2
    <3> QED
      BY <2>1, <3>1, <3>2
  <2>3. unlogged' \subseteq Events
    BY <1>b, <1>e, <2>1 DEF AuditBounds
  <2>4. LoggerBounds'
    <3>1. /\ \A k \in Loggers : logger'[k] = IF k = l THEN Quiet ELSE logger[k]
          /\ logger' \in [Loggers -> LogRecords]
      BY <1>b, <1>f, <2>1 DEF LoggerBounds
    <3>2. \A k \in Loggers :
            /\ logger'[k].at # "idle" => logger[k].at # "idle" /\ logger'[k] = logger[k]
            /\ logger'[k].at \in {"chain", "buffer", "open"} =>
                 /\ logger[k].at \in {"chain", "buffer", "open"}
                 /\ logger'[k].event = logger[k].event
      BY <1>f, <3>1
    <3>3. Opening' \subseteq Opening
      BY <1>b, <3>2, OpeningEvents, OpeningNext
    <3>4. Cardinality(Opening') \in Nat /\ Cardinality(Opening') <= Cardinality(Opening)
      <4>1. IsFiniteSet(Opening')
        BY <1>c, <3>3, FS_Subset
      <4> QED
        BY <1>c, <3>3, <4>1, FS_Subset, FS_CardinalityType
    <3>5. Len(logged') + Cardinality(Opening') <= Len(previous')
      BY <1>b, <1>c, <2>1, <2>2, <3>4
    <3> QED
      BY <1>b, <2>1, <3>1, <3>2, <3>5 DEF LoggerBounds, LogRecords
  <2> QED
    BY <1>b, <2>1, <2>2, <2>3, <2>4 DEF LogBounds, AuditBounds, Events
<1>7. ASSUME NEW l \in Loggers, RenameFiles(l) PROVE LogBounds'
  <2>1. /\ logger[l].at = "rename" /\ current' = Nothing
        /\ logger' = [logger EXCEPT ![l] = Quiet]
        /\ rotated' = IF current # Nothing THEN [Shifted EXCEPT ![1] = current] ELSE Shifted
        /\ UNCHANGED <<lastHash, previous, buffer, writer, logged, forked, raced, halved,
                       unlogged>>
    BY <1>7 DEF RenameFiles
  <2>2. LoggerBounds'
    BY <1>b, <1>f, <2>1, LoggerGoes
  <2>3. Shifted \in [1..BackupCount -> 0..MaxEvents]
    BY <1>g
  <2>4. current \in 0..MaxEvents
    <3>1. current \in 0..Len(logged)
      BY <1>b DEF AuditBounds
    <3> QED
      BY <1>a, <1>b, <1>d, <3>1
  <2>5. rotated' \in [1..BackupCount -> 0..MaxEvents]
    BY <2>1, <2>3, <2>4
  <2>6. current' \in 0..Len(logged')
    BY <1>a, <1>b, <2>1
  <2> QED
    BY <1>b, <2>1, <2>2, <2>5, <2>6 DEF LogBounds, AuditBounds, Events
<1>11. ASSUME NEW l \in Loggers, NEW n \in 1..BackupCount, RenameFails(l, n)
       PROVE  LogBounds'
  <2>1. /\ logger[l].at = "rename" /\ logger' = [logger EXCEPT ![l] = Quiet]
        /\ rotated' = Halfway(n) /\ halved' = (halved \/ rotated' # rotated)
        /\ UNCHANGED <<lastHash, previous, buffer, current, writer, logged, forked, raced,
                       unlogged>>
    BY <1>11 DEF RenameFails
  <2>2. LoggerBounds'
    BY <1>b, <1>f, <2>1, LoggerGoes
  <2>3. rotated' \in [1..BackupCount -> 0..MaxEvents]
    <3>1. rotated \in [1..BackupCount -> 0..MaxEvents] /\ Nothing \in 0..MaxEvents
      BY <1>a, <1>b DEF AuditBounds
    <3> QED
      BY <1>g, <2>1, <3>1 DEF Halfway
  <2>4. halved' \in BOOLEAN
    BY <2>1
  <2> QED
    BY <1>b, <2>1, <2>2, <2>3, <2>4 DEF LogBounds, AuditBounds, Events
<1>8. CASE UNCHANGED AuditVars
  BY <1>8, <1>b DEF AuditVars, LogBounds, AuditBounds, LoggerBounds, LogRecords, Opening, Events
<1> QED
  BY <1>1, <1>2, <1>3, <1>4, <1>5, <1>6, <1>7, <1>8, <1>9, <1>10, <1>11 DEF AuditNext

LEMMA AuditTypesHold == AuditSpec => []AuditTypeOK
<1>a. /\ MaxEvents \in Nat \ {0} /\ BufferSize \in Nat \ {0} /\ BackupCount \in Nat \ {0}
      /\ Nothing = 0
  BY AuditAssumption DEF Nothing
<1>1. AuditInit => LogBounds
  <2> SUFFICES ASSUME AuditInit PROVE LogBounds
    OBVIOUS
  <2>1. /\ lastHash = 0 /\ previous = <<>> /\ buffer = <<>> /\ current = 0 /\ writer = 0
        /\ rotated = [n \in 1..BackupCount |-> 0] /\ logged = <<>>
        /\ logger = [l \in Loggers |-> Quiet] /\ forked = FALSE /\ raced = FALSE
        /\ halved = FALSE /\ unlogged = {}
    BY DEF AuditInit, Nothing
  <2>2. Len(logged) = 0 /\ Len(previous) = 0 /\ Len(buffer) = 0
        /\ logged \in Seq(SUBSET Events) /\ previous \in Seq(0..MaxEvents)
        /\ buffer \in Seq(Events)
    BY <2>1
  <2>a. 0 \in 0..MaxEvents /\ 0 <= MaxEvents /\ 0 <= BufferSize
    BY <1>a
  <2>3. AuditBounds
    <3>1. rotated \in [1..BackupCount -> 0..MaxEvents]
      BY <2>1, <2>a
    <3>2. current \in 0..Len(logged) /\ writer \in 0..Len(logged)
      BY <2>1, <2>2
    <3>3. Len(previous) <= MaxEvents /\ Len(buffer) <= BufferSize
      BY <2>2, <2>a
    <3> QED
      BY <2>1, <2>2, <2>a, <3>1, <3>2, <3>3 DEF AuditBounds
  <2>4. Quiet \in LogRecords /\ Quiet.at = "idle"
    BY <1>a DEF Quiet, LogRecords, AuditStates
  <2>5. \A l \in Loggers : logger[l].at = "idle"
    BY <2>1, <2>4
  <2>6. Opening = {} /\ Cardinality({}) = 0
    BY <2>5, FS_EmptySet DEF Opening
  <2>7. Len(logged) + Cardinality(Opening) <= Len(previous)
    BY <2>2, <2>6
  <2>8. logger \in [Loggers -> LogRecords]
    BY <2>1, <2>4
  <2> QED
    BY <2>3, <2>5, <2>7, <2>8 DEF LogBounds, LoggerBounds
<1>2. LogBounds => AuditTypeOK
  <2> SUFFICES ASSUME LogBounds PROVE AuditTypeOK
    OBVIOUS
  <2>1. Len(previous) \in Nat /\ Len(logged) \in Nat /\ LoggerBounds /\ AuditBounds
    BY DEF LogBounds, AuditBounds
  <2>2. Len(logged) <= MaxEvents
    BY <1>a, <2>1, OpeningEvents DEF LoggerBounds, AuditBounds
  <2>3. 0..MaxEvents = Events \cup {Nothing} /\ Events = Files
    BY <1>a DEF Events, Files
  <2>4. {current, writer} \subseteq Files \cup {Nothing}
    BY <1>a, <2>1, <2>2 DEF AuditBounds, Files
  <2>5. logger \in [Loggers ->
          [at: {"idle", "chain", "buffer", "open", "write", "check", "close",
                "rename"},
           event: Events \cup {Nothing}, link: Events \cup {Nothing}]]
    BY <2>1, <2>3 DEF LoggerBounds, LogRecords, AuditStates
  <2> QED
    BY <2>1, <2>2, <2>3, <2>4, <2>5 DEF AuditTypeOK, AuditBounds
<1> QED
  BY <1>1, <1>2, LogBoundsStep, PTL DEF AuditSpec

(* The types of IntrusionDetection *)

IntrusionBounds ==
  /\ Len(arrived) <= MaxSeen /\ Len(recent) <= RuleBuffer
  /\ stale \subseteq Seen /\ DOMAIN alerts \subseteq Seen
  /\ \A e \in DOMAIN alerts : alerts[e] \in AlertStatus

LEMMA IntrusionBoundsStep ==
  IntrusionTypes /\ IntrusionBounds /\ [IntrusionNext]_IntrusionVars => IntrusionBounds'
<1> SUFFICES ASSUME IntrusionTypes, IntrusionBounds, [IntrusionNext]_IntrusionVars
             PROVE  IntrusionBounds'
  OBVIOUS
<1>a. MaxSeen \in Nat /\ RuleBuffer \in Nat
  BY IntrusionAssumption
<1>b. Len(arrived) \in Nat /\ Seen = 1..Len(arrived) /\ Len(recent) \in Nat
  BY DEF IntrusionTypes, Seen
<1>1. ASSUME NEW k \in EventTypes, TakeEvent(k) PROVE IntrusionBounds'
  <2> PICK longer : longer = Append(recent, Len(arrived) + 1)
    OBVIOUS
  <2>1. /\ Len(arrived) < MaxSeen /\ arrived' = Append(arrived, k)
        /\ recent' = IF Len(longer) > RuleBuffer THEN Tail(longer) ELSE longer
        /\ UNCHANGED <<stale, listed, alerts>>
    BY <1>1 DEF TakeEvent
  <2>2. Len(arrived') = Len(arrived) + 1 /\ Seen' = 1..(Len(arrived) + 1)
    BY <2>1 DEF IntrusionTypes, Seen
  <2>3. Len(longer) = Len(recent) + 1 /\ Len(Tail(longer)) = Len(recent)
    <3>1. longer \in Seq(Nat) /\ longer # <<>> /\ Len(longer) = Len(recent) + 1
      BY <1>b DEF IntrusionTypes
    <3> QED
      BY <1>b, <3>1
  <2>4. Len(recent') <= RuleBuffer
    <3>1. CASE Len(longer) > RuleBuffer
      BY <2>1, <2>3, <3>1 DEF IntrusionBounds
    <3>2. CASE ~(Len(longer) > RuleBuffer)
      BY <1>a, <1>b, <2>1, <2>3, <3>2
    <3> QED
      BY <3>1, <3>2
  <2> QED
    BY <1>a, <1>b, <2>1, <2>2, <2>4 DEF IntrusionBounds, AlertStatus
<1>2. ASSUME UNCHANGED <<arrived, recent, stale, alerts>> PROVE IntrusionBounds'
  BY <1>2 DEF IntrusionBounds, Seen, AlertStatus
<1>3. ASSUME NEW e \in Seen, StoreAlert(e) PROVE IntrusionBounds'
  BY <1>3 DEF StoreAlert, IntrusionBounds, Seen, AlertStatus
<1>4. ASSUME NEW e \in Seen, LeavesWindow(e) PROVE IntrusionBounds'
  BY <1>4 DEF LeavesWindow, IntrusionBounds, Seen, AlertStatus
<1>5. ASSUME NEW e \in Seen, NEW status \in AlertStatus, UpdateAlertStatus(e, status)
      PROVE  IntrusionBounds'
  BY <1>5 DEF UpdateAlertStatus, IntrusionBounds, Seen, AlertStatus
<1>6. ASSUME NEW e \in Seen,
             TakeRules(e) \/ Respond(e) \/ DropRules(e) \/ \E r \in Rules : CheckRule(e, r)
      PROVE  IntrusionBounds'
  BY <1>2, <1>6 DEF TakeRules, Respond, DropRules, CheckRule
<1>7. ASSUME NEW r \in Rules, ChangeRules(r) PROVE IntrusionBounds'
  BY <1>2, <1>7 DEF ChangeRules
<1>8. CASE UNCHANGED IntrusionVars
  BY <1>2, <1>8 DEF IntrusionVars
<1> QED
  BY <1>1, <1>3, <1>4, <1>5, <1>6, <1>7, <1>8 DEF IntrusionNext

LEMMA IntrusionTypesHold == IntrusionSpec => []IntrusionTypeOK
<1>1. IntrusionInit => IntrusionBounds
  <2> SUFFICES ASSUME IntrusionInit PROVE IntrusionBounds
    OBVIOUS
  <2>1. arrived = <<>> /\ recent = <<>> /\ stale = {} /\ alerts = <<>>
    BY DEF IntrusionInit
  <2>2. Len(arrived) = 0 /\ Len(recent) = 0 /\ DOMAIN alerts = {}
    BY <2>1
  <2> QED
    BY <2>1, <2>2, IntrusionAssumption DEF IntrusionBounds
<1>2. IntrusionTypes /\ IntrusionBounds => IntrusionTypeOK
  <2> SUFFICES ASSUME IntrusionTypes, IntrusionBounds PROVE IntrusionTypeOK
    OBVIOUS
  <2>1. Seen = 1..Len(arrived) /\ Len(arrived) \in Nat /\ MaxSeen \in Nat
        /\ DOMAIN handling = 1..Len(handling)
    BY IntrusionAssumption DEF IntrusionTypes, Seen
  <2>2. Seen \subseteq 1..MaxSeen /\ DOMAIN handling = Seen
    BY <2>1 DEF IntrusionTypes, IntrusionBounds
  <2>3. \A e \in Seen : arrived[e] \in EventTypes
    BY <2>1 DEF IntrusionTypes
  <2>4. \A e \in Seen : handling[e] \in EventRecords
    BY <2>1, <2>2 DEF IntrusionTypes
  <2> QED
    BY <2>1, <2>2, <2>3, <2>4
       DEF IntrusionTypes, IntrusionBounds, IntrusionTypeOK, Buffered, EventRecords, EventStates
<1>3. IntrusionInv => IntrusionTypes
  BY DEF IntrusionInv
<1> QED
  BY <1>1, <1>2, <1>3, IntrusionInitInv, IntrusionStep, IntrusionBoundsStep, PTL
     DEF IntrusionSpec

(* The types of AuditMonitor *)

MonitorBounds ==
  /\ now \in 0..MaxTime /\ received \in 0..MaxReceived
  /\ past \in Seq(Event) /\ Len(past) <= HistorySize
  /\ loop \in [at: {"receive", "analyze", "send"}, found: SUBSET Alert, sent: 0..AtMost]
  /\ loop.at # "receive" => received >= 1
  /\ loop.at = "receive" => loop.found = {}
  /\ loop.found # {} => loop.sent < AtMost
  /\ raised \subseteq [alert: Alert, copy: 1..MaxReceived, status: {"Active", "Investigating"}]

LEMMA MonitorBoundsStep == MonitorBounds /\ [MonitorNext]_MonitorVars => MonitorBounds'
<1> SUFFICES ASSUME MonitorBounds, [MonitorNext]_MonitorVars PROVE MonitorBounds'
  OBVIOUS
<1> DEFINE Loops == [at: {"receive", "analyze", "send"}, found: SUBSET Alert, sent: 0..AtMost]
           Kinds == [alert: Alert, copy: 1..MaxReceived, status: {"Active", "Investigating"}]
<1>a. /\ MaxTime \in Nat /\ MaxReceived \in Nat /\ AtMost \in Nat /\ HistorySize \in Nat
      /\ now \in 0..MaxTime /\ received \in 0..MaxReceived /\ loop \in Loops
      /\ raised \subseteq Kinds /\ past \in Seq(Event) /\ Len(past) \in Nat
      /\ PerEvent \in Nat /\ PerEvent <= AtMost /\ AtMost > 0
  BY MonitorAssumption, SomeMayCome DEF MonitorBounds
<1>1. ASSUME NEW s \in Sources, NEW k \in AlertTypes, ReceiveEvent(s, k) PROVE MonitorBounds'
  <2> PICK e : e = [source |-> s, type |-> k, time |-> now]
    OBVIOUS
  <2> PICK longer : longer = Append(past, e)
    OBVIOUS
  <2>1. /\ loop.at = "receive" /\ received < MaxReceived /\ received' = received + 1
        /\ past' = IF Len(longer) > HistorySize THEN Tail(longer) ELSE longer
        /\ loop' = [loop EXCEPT !.at = "analyze"] /\ UNCHANGED <<now, raised>>
    BY <1>1 DEF ReceiveEvent
  <2>2. e \in Event
    BY <1>a DEF Event
  <2>3. longer \in Seq(Event) /\ Len(longer) = Len(past) + 1 /\ longer # <<>>
    BY <1>a, <2>2
  <2>4. past' \in Seq(Event) /\ Len(past') <= HistorySize
    <3>1. CASE Len(longer) > HistorySize
      <4>1. Tail(longer) \in Seq(Event) /\ Len(Tail(longer)) = Len(longer) - 1
        BY <2>3
      <4> QED
        BY <1>a, <2>1, <2>3, <3>1, <4>1 DEF MonitorBounds
    <3>2. CASE ~(Len(longer) > HistorySize)
      BY <1>a, <2>1, <2>3, <3>2
    <3> QED
      BY <3>1, <3>2
  <2>5. loop' \in Loops /\ loop'.at = "analyze" /\ loop'.found = loop.found
        /\ loop'.sent = loop.sent
    BY <1>a, <2>1
  <2>6. received' \in 0..MaxReceived /\ received' >= 1
    BY <1>a, <2>1
  <2> QED
    BY <1>a, <2>1, <2>4, <2>5, <2>6 DEF MonitorBounds, Event, Alert
<1>b. ASSUME NEW r, r \in Loops, loop' = r, loop.at # "receive", r.at = "receive" => r.found = {},
             r.found # {} => r.sent < AtMost, UNCHANGED <<now, received, past>>, raised' \subseteq Kinds
      PROVE  MonitorBounds'
  BY <1>a, <1>b DEF MonitorBounds, Event, Alert
<1>2. CASE Analyze
  <2> PICK r : r = [at |-> "send", sent |-> 0,
                    found |-> {[source |-> p[1], type |-> p[2], time |-> now] : p \in Suspects}]
    OBVIOUS
  <2>1. {[source |-> p[1], type |-> p[2], time |-> now] : p \in Suspects} \subseteq Alert
    BY <1>a DEF Suspects, Alert
  <2>2. r \in Loops /\ r.at = "send" /\ r.sent = 0
    BY <1>a, <2>1
  <2>3. loop' = r /\ loop.at # "receive" /\ UNCHANGED <<now, received, past, raised>>
    BY <1>2 DEF Analyze
  <2> QED
    BY <1>a, <1>b, <2>2, <2>3
<1>3. CASE EndOfEvent
  <2>1. Idle \in Loops /\ Idle.at = "receive" /\ Idle.found = {}
    BY <1>a DEF Idle
  <2>2. loop' = Idle /\ loop.at # "receive" /\ UNCHANGED <<now, received, past, raised>>
    BY <1>3 DEF EndOfEvent
  <2> HIDE DEF Loops, Kinds
  <2> QED
    BY <1>a, <1>b, <2>1, <2>2
<1>4. CASE ClockTicks
  BY <1>a, <1>4 DEF ClockTicks, MonitorBounds, Event, Alert
<1>5. ASSUME NEW a \in loop.found, PassAlert(a) PROVE MonitorBounds'
  <2>1. /\ loop.at = "send" /\ loop.sent < AtMost /\ a \in Alert
        /\ loop.sent \in 0..AtMost /\ loop.sent + 1 \in 0..AtMost
    BY <1>a, <1>5 DEF PassAlert, NextAlert, MonitorBounds
  <2>2. ASSUME NEW n \in 0..AtMost
        PROVE  /\ Passed(a, n) \in Loops /\ Passed(a, n).at = "send"
               /\ Passed(a, n).found # {} => Passed(a, n).sent < AtMost
    <3>1. Passed(a, n) = [loop EXCEPT !.sent = n,
                                      !.found = IF n >= PerEvent THEN {} ELSE loop.found \ {a}]
      BY DEF Passed
    <3>2. Passed(a, n) \in Loops /\ Passed(a, n).at = "send" /\ Passed(a, n).sent = n
      BY <1>a, <2>1, <3>1
    <3>3. Passed(a, n).found # {} => n < PerEvent
      BY <1>a, <3>1
    <3> QED
      BY <1>a, <3>2, <3>3
  <2>3. CASE loop' = Passed(a, loop.sent) /\ raised' = raised
    BY <1>a, <1>b, <1>5, <2>1, <2>2, <2>3 DEF PassAlert
  <2>4. CASE /\ loop' = Passed(a, loop.sent + 1)
             /\ raised' = raised \cup {[alert |-> a, copy |-> received, status |-> "Active"]}
    <3>1. received \in 1..MaxReceived
      BY <1>a, <2>1 DEF MonitorBounds
    <3>2. raised' \subseteq Kinds
      BY <1>a, <2>1, <2>4, <3>1
    <3> QED
      BY <1>a, <1>b, <1>5, <2>1, <2>2, <2>4, <3>2 DEF PassAlert
  <2> QED
    BY <1>5, <2>3, <2>4 DEF PassAlert
<1>6. ASSUME NEW r \in raised, AcknowledgeAlert(r) \/ ResolveAlert(r) PROVE MonitorBounds'
  <2>1. r \in Kinds /\ [r EXCEPT !.status = "Investigating"] \in Kinds
    BY <1>a
  <2>2. raised' \subseteq Kinds /\ UNCHANGED <<now, received, past, loop>>
    BY <1>a, <1>6, <2>1 DEF AcknowledgeAlert, ResolveAlert
  <2> QED
    BY <1>a, <2>2 DEF MonitorBounds, Event, Alert
<1>7. CASE UNCHANGED MonitorVars
  BY <1>7 DEF MonitorVars, MonitorBounds, Event, Alert
<1> QED
  BY <1>1, <1>2, <1>3, <1>4, <1>5, <1>6, <1>7 DEF MonitorNext

LEMMA MonitorTypesHold == MonitorSpec => []MonitorTypeOK
<1>1. MonitorInit => MonitorBounds
  <2> SUFFICES ASSUME MonitorInit PROVE MonitorBounds
    OBVIOUS
  <2>1. /\ now = 0 /\ received = 0 /\ past = <<>> /\ raised = {}
        /\ loop = [at |-> "receive", found |-> {}, sent |-> 0]
    BY DEF MonitorInit, Idle
  <2>2. past \in Seq(Event) /\ Len(past) = 0
    BY <2>1
  <2>3. 0 \in 0..MaxTime /\ 0 \in 0..MaxReceived /\ 0 \in 0..AtMost /\ 0 <= HistorySize
    BY MonitorAssumption, SomeMayCome
  <2> QED
    BY <2>1, <2>2, <2>3 DEF MonitorBounds
<1>2. MonitorBounds => MonitorTypeOK
  <2> SUFFICES ASSUME MonitorBounds PROVE MonitorTypeOK
    OBVIOUS
  <2>1. past \in BoundedSeq(Event, HistorySize)
    <3>1. Len(past) \in 0..HistorySize /\ past \in [1..Len(past) -> Event]
      BY MonitorAssumption DEF MonitorBounds
    <3> QED
      BY <3>1 DEF BoundedSeq, SeqOf
  <2> QED
    BY <2>1 DEF MonitorBounds, MonitorTypeOK
<1> QED
  BY <1>1, <1>2, MonitorBoundsStep, PTL DEF MonitorSpec

-----------------------------------------------------------------------------
(* MCServices: a behaviour of the whole is one of each component, which either  *)
(* runs alone or stays as it began; so what holds of the components holds of    *)
(* the whole.                                                                   *)

LEMMA MCStartsEach ==
  MCInit => /\ SyncInit /\ BreakerInit /\ MachineInit /\ GraphInit /\ SchedulerInit
            /\ LocksInit /\ BackupInit /\ AuditInit /\ IntrusionInit /\ MonitorInit
BY DEF MCInit

LEMMA MCStepsEach ==
  [MCNext]_MCVars => /\ [SyncNext]_SyncVars /\ [BreakerNext]_BreakerVars
                     /\ [MachineNext]_MachineVars /\ [GraphNext]_GraphVars
                     /\ [SchedulerNext]_SchedulerVars /\ [LocksNext]_LocksVars
                     /\ [BackupNext]_BackupVars /\ [AuditNext]_AuditVars
                     /\ [IntrusionNext]_IntrusionVars /\ [MonitorNext]_MonitorVars
BY Zenon DEF MCNext, MCVars, Only, Others

\* At every moment a burst has been answered by an alert where intrusions are watched
\* for, and the alerts of one pattern keep apart where the log is watched
\* (intrusion_detection.rs, audit_monitoring.rs).
THEOREM AlarmsStayUseful == MCSpec => []AlarmsStand
<1>1. MCSpec => IntrusionSpec /\ MonitorSpec
  BY MCStartsEach, MCStepsEach, PTL DEF MCSpec, IntrusionSpec, MonitorSpec
<1>2. BurstsAreSeen /\ AlertsSpaced => AlarmsStand
  BY DEF AlarmsStand
<1> QED
  BY <1>1, <1>2, BurstsStaySeen, AlertsStaySpaced, PTL

\* The component that runs stays within its types and bounds; that the log is in no
\* more files than it has events, that a call has attempts left while it waits to try
\* again, and that no alert is raised before an event, is what makes the bounds hold.
THEOREM ServicesStayTyped == MCSpec => []ServiceTypes
<1>1. MCSpec => /\ SyncSpec /\ BreakerSpec /\ MachineSpec /\ GraphSpec /\ SchedulerSpec
                /\ LocksSpec /\ BackupSpec /\ AuditSpec /\ IntrusionSpec /\ MonitorSpec
  BY MCStartsEach, MCStepsEach, PTL
     DEF MCSpec, SyncSpec, BreakerSpec, MachineSpec, GraphSpec, SchedulerSpec, LocksSpec,
         BackupSpec, AuditSpec, IntrusionSpec, MonitorSpec
<1>2. /\ SyncTypeOK /\ BreakerTypeOK /\ MachineTypeOK /\ GraphTypeOK /\ SchedulerTypeOK
      /\ LocksTypeOK /\ BackupTypeOK /\ AuditTypeOK /\ IntrusionTypeOK /\ MonitorTypeOK
      => ServiceTypes
  BY DEF ServiceTypes
<1> QED
  BY <1>1, <1>2, SyncTypes, BreakerTypes, MachineTypes, GraphTypesHold, SchedulerTypesHold,
     LocksTypes, BackupTypesHold, AuditTypesHold, IntrusionTypesHold, MonitorTypesHold, PTL
=============================================================================
