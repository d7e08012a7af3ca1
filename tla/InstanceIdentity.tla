-------------------------- MODULE InstanceIdentity --------------------------
(* The instance id of each member (cluster/instance.rs).  Every process of a    *)
(* member, the daemon and each command line, makes its own InstanceManager,     *)
(* which reads instance.toml, falls back to the id in mounts.toml and creates   *)
(* an id when there is none; what it found it writes back.  A crash may tear    *)
(* the file, and a merge replaces the id in mounts.toml by ConfigMerger's.      *)
EXTENDS FiniteSets

CONSTANTS Hosts,       \* members, each with its own configuration directory
          Processes,   \* processes of a member
          Uuids,       \* bound: ids that can be created
          MergerId     \* the instance id ConfigMerger::new carries ("unknown")

NoId == "none"
Torn == "torn"

ASSUME IdentityAssumption == {MergerId, NoId, Torn} \cap Uuids = {}

VARIABLES file,        \* instance.toml
          listed,      \* cluster.instance_id in mounts.toml
          proc,        \* what each process does, and under which id
          spent        \* ids created so far

IdentityVars == <<file, listed, proc, spent>>

Ids == Uuids \cup {MergerId}

IdentityTypeOK ==
  /\ file \in [Hosts -> Ids \cup {NoId, Torn}]
  /\ listed \in [Hosts -> Ids \cup {NoId}]
  /\ proc \in [Hosts -> [Processes -> [at: {"down", "write", "up"},
                                       id: Ids \cup {NoId}]]]
  /\ spent \subseteq Uuids

Down == [at |-> "down", id |-> NoId]

IdentityInit ==
  /\ file = [h \in Hosts |-> NoId] /\ listed = [h \in Hosts |-> NoId]
  /\ proc = [h \in Hosts |-> [p \in Processes |-> Down]]
  /\ spent = {}

Unreadable(h) == file[h] \in {NoId, Torn}

\* load_or_create, up to the write.
LoadFile(h, p) ==
  /\ proc[h][p] = Down /\ ~Unreadable(h)
  /\ proc' = [proc EXCEPT ![h][p] = [at |-> "up", id |-> file[h]]]
  /\ UNCHANGED <<file, listed, spent>>

MigrateId(h, p) ==
  /\ proc[h][p] = Down /\ Unreadable(h) /\ listed[h] # NoId
  /\ proc' = [proc EXCEPT ![h][p] = [at |-> "write", id |-> listed[h]]]
  /\ UNCHANGED <<file, listed, spent>>

CreateId(h, p) ==
  /\ proc[h][p] = Down /\ Unreadable(h) /\ listed[h] = NoId
  /\ \E u \in Uuids \ spent :
       /\ spent' = spent \cup {u}
       /\ proc' = [proc EXCEPT ![h][p] = [at |-> "write", id |-> u]]
  /\ UNCHANGED <<file, listed>>

\* fs::write, whose error is ignored.
WriteId(h, p) ==
  /\ proc[h][p].at = "write"
  /\ proc' = [proc EXCEPT ![h][p].at = "up"]
  /\ \E written \in {proc[h][p].id, file[h]} : file' = [file EXCEPT ![h] = written]
  /\ UNCHANGED <<listed, spent>>

CrashWhileWriting(h, p) ==
  /\ proc[h][p].at = "write"
  /\ proc' = [proc EXCEPT ![h][p] = Down]
  /\ file' = [file EXCEPT ![h] = Torn]
  /\ UNCHANGED <<listed, spent>>

Exit(h, p) ==
  /\ proc[h][p].at = "up"
  /\ proc' = [proc EXCEPT ![h][p] = Down]
  /\ UNCHANGED <<file, listed, spent>>

\* initialize_cluster, called by a join when there is no cluster yet.
InitializeCluster(h, p) ==
  /\ proc[h][p].at = "up" /\ listed[h] = NoId
  /\ listed' = [listed EXCEPT ![h] = proc[h][p].id]
  /\ UNCHANGED <<file, proc, spent>>

\* Faulty: the update brings its sender's id.
ReplacedBySender(h, p) ==
  /\ proc[h][p].at = "up" /\ listed[h] # NoId
  /\ \E g \in Hosts : listed' = [listed EXCEPT ![h] = listed[g]]
  /\ UNCHANGED <<file, proc, spent>>

\* A configuration update brings the merged configuration.
ReplacedByMerge(h, p) ==
  /\ proc[h][p].at = "up" /\ listed[h] # NoId
  /\ listed' = [listed EXCEPT ![h] = MergerId]
  /\ UNCHANGED <<file, proc, spent>>

IdentityNext ==
  \E h \in Hosts, p \in Processes :
    \/ LoadFile(h, p) \/ MigrateId(h, p) \/ CreateId(h, p)
    \/ WriteId(h, p) \/ CrashWhileWriting(h, p) \/ Exit(h, p)
    \/ InitializeCluster(h, p) \/ ReplacedByMerge(h, p)

IdentitySpec == IdentityInit /\ [][IdentityNext]_IdentityVars

\* Two members run under one id only if it is the merger's placeholder, which a
\* member takes when it lost its file after a merge; however the processes of a
\* member raced for its first id, no other id ever belongs to two members.
DistinctIds ==
  \A g, h \in Hosts, p, q \in Processes :
    g # h /\ proc[g][p].id = proc[h][q].id => proc[g][p].id \in {NoId, MergerId}
=============================================================================
