----------------------------- MODULE ConfigMerge -----------------------------
(* Merging the configurations of several members (sync/merge.rs).              *)
(* The configurations arrive in the order in which a hash map is drained, so   *)
(* merge_configs sees them in any order; the timestamps are the members' own.  *)
(* A mount version is its updated_at and its content; the settings a           *)
(* configuration carries are named by the member they come from.               *)
EXTENDS Integers, FiniteSets, FiniteSetsExt

CONSTANTS Members,     \* instance ids: naturals, whose order breaks ties
          MergeMounts, \* mount ids
          Contents,    \* contents of a mount
          Clock,       \* timestamps: naturals
          MaxSync      \* bound: sync versions

ASSUME MergeAssumption == /\ Members \subseteq Nat /\ IsFiniteSet(Members)
                          /\ Clock \subseteq Nat \ {0} /\ MaxSync \in Nat

VARIABLES inputs,      \* each member's configuration
          merged,      \* the MergedConfig, or NotMerged
          conflicts    \* the conflicts it reports

MergeVars == <<inputs, merged, conflicts>>

Absent == [at |-> 0, content |-> 0]
Version == {Absent} \cup [at: Clock, content: Contents]

\* clustered: config.cluster is Some; last: last_sync_at, 0 for None.
Configuration ==
  [mounts: [MergeMounts -> Version], clustered: BOOLEAN,
   sync: 0..MaxSync, last: {0} \cup Clock]

Defaults == -1
NotMerged == [mounts |-> [m \in MergeMounts |-> Absent], sync |-> 0,
              announced |-> 0, settings |-> Defaults]

MergeTypeOK ==
  /\ inputs \in [Members -> Configuration]
  /\ merged \in [mounts: [MergeMounts -> Version], sync: 0..(MaxSync + 1),
                 announced: 0..(MaxSync + 2), settings: Members \cup {Defaults}]
  /\ conflicts \in SUBSET [mount: MergeMounts, members: SUBSET Members,
                           used: Members]

MergeInit ==
  /\ inputs \in [Members -> Configuration]
  /\ \A i \in Members :
       ~inputs[i].clustered => inputs[i].sync = 0 /\ inputs[i].last = 0
  /\ merged = NotMerged /\ conflicts = {}

-----------------------------------------------------------------------------
(* merge_configs *)

\* The members that have the mount, and of those the ones whose version has its
\* latest timestamp: the stable sort puts them first, in the order they came in.
HadBy(m) == {i \in Members : inputs[i].mounts[m] # Absent}
LatestTime(m) == Max({inputs[i].mounts[m].at : i \in HadBy(m)})
Holders(m) == {i \in HadBy(m) : inputs[i].mounts[m].at = LatestTime(m)}
First(m, order) == order[Min({k \in DOMAIN order : order[k] \in Holders(m)})]

\* resolve_mount_conflict, with the tie-break by instance id that ConfigMerger
\* is made with: a conflict needs different contents at the latest time.
Disputed(m, order) ==
  \E i \in Holders(m) :
    inputs[i].mounts[m].content # inputs[First(m, order)].mounts[m].content
\* Faulty: the first version in the list is taken.
ChosenUntied(m, order) == First(m, order)
Chosen(m, order) ==
  IF Disputed(m, order) THEN Min(Holders(m)) ELSE First(m, order)

ResolveMount(m, order) ==
  IF HadBy(m) = {} THEN Absent ELSE inputs[Chosen(m, order)].mounts[m]

ConflictsOf(order) ==
  {[mount |-> m, members |-> Holders(m), used |-> Chosen(m, order)] :
     m \in {m \in MergeMounts : HadBy(m) # {} /\ Disputed(m, order)}}

\* merge_global_settings and the cluster settings: a configuration that synced, and
\* strictly later than those before it, takes over, so the last to do so stays.
MergeSettings(order) ==
  LET last(k) == inputs[order[k]].last
      takers == {k \in DOMAIN order : last(k) > 0 /\ \A j \in 1..(k - 1) : last(j) < last(k)}
  IN IF takers = {} THEN Defaults ELSE order[Max(takers)]

LatestSync == Max({0} \cup {inputs[i].sync : i \in Members})

\* The configuration says latest + 1, the metadata returned with it one more.
MergeConfigs ==
  /\ merged = NotMerged
  /\ \E order \in [1..Cardinality(Members) -> Members] :
       /\ \A i \in Members : \E k \in DOMAIN order : order[k] = i
       /\ merged' = [mounts |-> [m \in MergeMounts |-> ResolveMount(m, order)],
                     sync |-> LatestSync + 1, announced |-> LatestSync + 2,
                     settings |-> MergeSettings(order)]
       /\ conflicts' = ConflictsOf(order)
  /\ UNCHANGED inputs

MergeNext == MergeConfigs

MergeSpec == MergeInit /\ [][MergeNext]_MergeVars

-----------------------------------------------------------------------------
(* Properties *)

Merged == merged # NotMerged

\* The configuration of a mount that a merge must keep, said without an order:
\* of the versions with the latest timestamp the one of the smallest instance
\* id.  Members who merge the same configurations, received in different
\* orders, therefore agree on every mount and on what was in conflict.
Winner(m) ==
  Min({i \in HadBy(m) : \A j \in HadBy(m) :
         inputs[j].mounts[m].at <= inputs[i].mounts[m].at})

MergeIsDeterministic ==
  Merged =>
    /\ \A m \in MergeMounts :
         merged.mounts[m] = IF HadBy(m) = {} THEN Absent
                            ELSE inputs[Winner(m)].mounts[m]
    /\ \A c \in conflicts :
         /\ c.used = Winner(c.mount)
         /\ \A i \in Members : i \in c.members <=>
              inputs[i].mounts[c.mount].at = inputs[c.used].mounts[c.mount].at

\* No member's edit is lost without trace: a version the merge does not keep is
\* older than the one kept, equal to it, or named in a conflict.
NoEditLostSilently ==
  Merged =>
    \A m \in MergeMounts : \A i \in HadBy(m) :
      \/ inputs[i].mounts[m].at < merged.mounts[m].at
      \/ inputs[i].mounts[m] = merged.mounts[m]
      \/ \E c \in conflicts : c.mount = m /\ i \in c.members

\* Members that merge the same configurations, in whatever order they come out of
\* the map, agree, and no edit disappears unseen (sync/merge.rs:95-290).
MergeIsSound == MergeIsDeterministic /\ NoEditLostSilently
=============================================================================
