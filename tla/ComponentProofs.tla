--------------------------- MODULE ComponentProofs ---------------------------
(* Proofs about the parts of the cluster, each for any set of members, peers,      *)
(* processes, ids and commands, and about the components taken together.  Every    *)
(* theorem rests on an inductive invariant of its module, stated before it.        *)
EXTENDS MCComponents, SecurityProofs

-----------------------------------------------------------------------------
(* InstanceIdentity: no created id is ever found with two members.          *)

\* Where member h keeps an id: its file, its configuration, its processes.
Bears(h, u) == file[h] = u \/ listed[h] = u \/ \E p \in Processes : proc[h][p].id = u

\* A created id is with one member only, and was taken from Uuids.
IdsApart ==
    \A h \in Hosts, u \in Uuids :
       Bears(h, u) => u \in spent /\ \A g \in Hosts : Bears(g, u) => g = h

IdentityInv == IdentityTypeOK /\ IdsApart

\* A step of one member that leaves it with its own ids, the merger's or a new one.
OwnStep(h) ==
    /\ spent \subseteq spent'
    /\ \A g \in Hosts \ {h} : file'[g] = file[g] /\ listed'[g] = listed[g]
                              /\ proc'[g] = proc[g]
    /\ \A u \in Uuids : Bears(h, u)' => Bears(h, u) \/ u \in spent' \ spent

LEMMA OwnStepKeepsApart ==
    ASSUME IdsApart, NEW h \in Hosts, OwnStep(h)
    PROVE  IdsApart'
<1> SUFFICES ASSUME NEW g \in Hosts, NEW u \in Uuids, Bears(g, u)'
             PROVE  u \in spent' /\ \A f \in Hosts : Bears(f, u)' => f = g
  BY DEF IdsApart
<1>1. \A f \in Hosts \ {h} : Bears(f, u)' <=> Bears(f, u)
  BY DEF OwnStep, Bears
<1>2. Bears(h, u)' => Bears(h, u) \/ u \in spent' \ spent
  BY DEF OwnStep
<1>3. \A f \in Hosts : Bears(f, u) => u \in spent /\ \A e \in Hosts : Bears(e, u) => e = f
  BY DEF IdsApart
<1>4. spent \subseteq spent'
  BY DEF OwnStep
<1> QED
  BY <1>1, <1>2, <1>3, <1>4

LEMMA IdentityInitInv == IdentityInit => IdentityInv
<1> SUFFICES ASSUME IdentityInit PROVE IdentityInv
  OBVIOUS
<1>1. IdentityTypeOK
  BY DEF IdentityInit, IdentityTypeOK, Ids, Down
<1>2. \A h \in Hosts, u \in Uuids : ~Bears(h, u)
  BY IdentityAssumption DEF IdentityInit, Bears, Down, NoId
<1> QED
  BY <1>1, <1>2 DEF IdentityInv, IdsApart

LEMMA IdentityStep ==
    ASSUME IdentityInv, NEW h \in Hosts, NEW p \in Processes,
           \/ LoadFile(h, p) \/ MigrateId(h, p) \/ CreateId(h, p)
           \/ WriteId(h, p) \/ CrashWhileWriting(h, p) \/ Exit(h, p)
           \/ InitializeCluster(h, p) \/ ReplacedByMerge(h, p)
    PROVE  IdentityInv'
<1> USE DEF IdentityInv
<1>0. /\ file \in [Hosts -> Ids \cup {NoId, Torn}]
      /\ listed \in [Hosts -> Ids \cup {NoId}]
      /\ proc \in [Hosts -> [Processes -> [at: {"down", "write", "up"}, id: Ids \cup {NoId}]]]
      /\ spent \subseteq Uuids
  BY DEF IdentityTypeOK
<1>1. CASE LoadFile(h, p)
  <2>1. file[h] \in Ids
    BY <1>0, <1>1 DEF LoadFile, Unreadable
  <2>2. IdentityTypeOK'
    BY <1>0, <1>1, <2>1 DEF LoadFile, IdentityTypeOK
  <2>3. OwnStep(h)
    BY <1>0, <1>1 DEF LoadFile, OwnStep, Bears
  <2> QED
    BY <2>2, <2>3, OwnStepKeepsApart
<1>2. CASE MigrateId(h, p)
  <2>1. IdentityTypeOK'
    BY <1>0, <1>2 DEF MigrateId, IdentityTypeOK
  <2>2. OwnStep(h)
    BY <1>0, <1>2 DEF MigrateId, OwnStep, Bears
  <2> QED
    BY <2>1, <2>2, OwnStepKeepsApart
<1>3. CASE CreateId(h, p)
  <2> PICK u \in Uuids \ spent :
        /\ spent' = spent \cup {u}
        /\ proc' = [proc EXCEPT ![h][p] = [at |-> "write", id |-> u]]
    BY <1>3 DEF CreateId
  <2>1. IdentityTypeOK'
    BY <1>0, <1>3 DEF CreateId, IdentityTypeOK, Ids
  <2>2. OwnStep(h)
    BY <1>0, <1>3 DEF CreateId, OwnStep, Bears
  <2> QED
    BY <2>1, <2>2, OwnStepKeepsApart
<1>4. CASE WriteId(h, p)
  <2>1. IdentityTypeOK'
    BY <1>0, <1>4 DEF WriteId, IdentityTypeOK
  <2>2. OwnStep(h)
    BY <1>0, <1>4 DEF WriteId, OwnStep, Bears
  <2> QED
    BY <2>1, <2>2, OwnStepKeepsApart
<1>5. CASE CrashWhileWriting(h, p)
  <2>1. IdentityTypeOK'
    BY <1>0, <1>5 DEF CrashWhileWriting, IdentityTypeOK, Down
  <2>2. OwnStep(h)
    BY <1>0, <1>5, IdentityAssumption DEF CrashWhileWriting, OwnStep, Bears, Down
  <2> QED
    BY <2>1, <2>2, OwnStepKeepsApart
<1>6. CASE Exit(h, p)
  <2>1. IdentityTypeOK'
    BY <1>0, <1>6 DEF Exit, IdentityTypeOK, Down
  <2>2. OwnStep(h)
    BY <1>0, <1>6, IdentityAssumption DEF Exit, OwnStep, Bears, Down
  <2> QED
    BY <2>1, <2>2, OwnStepKeepsApart
<1>7. CASE InitializeCluster(h, p)
  <2>1. IdentityTypeOK'
    BY <1>0, <1>7 DEF InitializeCluster, IdentityTypeOK
  <2>2. OwnStep(h)
    BY <1>0, <1>7 DEF InitializeCluster, OwnStep, Bears
  <2> QED
    BY <2>1, <2>2, OwnStepKeepsApart
<1>8. CASE ReplacedByMerge(h, p)
  <2>1. IdentityTypeOK'
    BY <1>0, <1>8 DEF ReplacedByMerge, IdentityTypeOK, Ids
  <2>2. OwnStep(h)
    BY <1>0, <1>8, IdentityAssumption DEF ReplacedByMerge, OwnStep, Bears
  <2> QED
    BY <2>1, <2>2, OwnStepKeepsApart
<1> QED
  BY <1>1, <1>2, <1>3, <1>4, <1>5, <1>6, <1>7, <1>8

\* Two members run under one id only if it is the placeholder a merge puts in its
\* result, however often they are started at once, crash or lose their file.
THEOREM IdsStayDistinct == IdentitySpec => []DistinctIds
<1>1. IdentityInit => IdentityInv
  BY IdentityInitInv
<1>2. IdentityInv /\ [IdentityNext]_IdentityVars => IdentityInv'
  <2> SUFFICES ASSUME IdentityInv, [IdentityNext]_IdentityVars PROVE IdentityInv'
    OBVIOUS
  <2>1. CASE IdentityNext
    BY <2>1, IdentityStep DEF IdentityNext
  <2>2. CASE UNCHANGED IdentityVars
    BY <2>2 DEF IdentityVars, IdentityInv, IdentityTypeOK, IdsApart, Bears
  <2> QED
    BY <2>1, <2>2
<1>3. IdentityInv => DistinctIds
  <2> SUFFICES ASSUME IdentityInv, NEW g \in Hosts, NEW h \in Hosts,
                      NEW p \in Processes, NEW q \in Processes,
                      g # h, proc[g][p].id = proc[h][q].id
               PROVE  proc[g][p].id \in {NoId, MergerId}
    BY DEF DistinctIds
  <2>1. proc[g][p].id \in Uuids \cup {MergerId, NoId}
    BY DEF IdentityInv, IdentityTypeOK, Ids
  <2>2. ASSUME proc[g][p].id \in Uuids PROVE FALSE
    BY <2>2 DEF IdentityInv, IdsApart, Bears
  <2> QED
    BY <2>1, <2>2
<1> QED
  BY <1>1, <1>2, <1>3, PTL DEF IdentitySpec

-----------------------------------------------------------------------------
(* ClusterState: the version and the healthy peers.                         *)

\* An update that is applied was newer than what its handler read.
CarriesNewer == \A u \in Appliers :
    applier[u].at = "apply" => applier[u].carries > applier[u].read

\* A peer that wrote since it was put in the table is not taken for disconnected.
SendersConnected == \A p \in senders : p \in Known /\ table[p].status # "Disconnected"

StateInv == StateTypeOK /\ CarriesNewer /\ SendersConnected

LEMMA StateInitInv == StateInit => StateInv
<1> SUFFICES ASSUME StateInit PROVE StateInv
  OBVIOUS
<1>1. entries \in [StatePeers -> 0..MaxEntries]
  BY StateAssumption DEF StateInit
<1> QED
  BY <1>1, StateAssumption
  DEF StateInit, StateInv, StateTypeOK, CarriesNewer, SendersConnected, Unknown, Resting,
      Statuses

LEMMA SeenKeeps ==
    ASSUME StateInv, NEW p \in StatePeers, MarkPeerSeen(p)
    PROVE  /\ table' \in [StatePeers -> {Unknown} \cup [status: Statuses, recent: BOOLEAN]]
           /\ senders' \subseteq StatePeers
           /\ SendersConnected'
<1>1. /\ table \in [StatePeers -> {Unknown} \cup [status: Statuses, recent: BOOLEAN]]
      /\ senders \subseteq StatePeers
  BY DEF StateInv, StateTypeOK
<1>2. table' \in [StatePeers -> {Unknown} \cup [status: Statuses, recent: BOOLEAN]]
  <2>1. p \in Known => table[p] \in [status: Statuses, recent: BOOLEAN]
    BY <1>1 DEF Known
  <2> QED
    BY <1>1, <2>1 DEF MarkPeerSeen, Statuses
<1>3. senders' \subseteq StatePeers
  BY <1>1 DEF MarkPeerSeen
<1>4. ASSUME NEW q \in senders'
      PROVE  q \in Known' /\ table'[q].status # "Disconnected"
  <2>1. CASE q # p
    BY <1>1, <1>4, <2>1 DEF MarkPeerSeen, SendersConnected, Known, StateInv
  <2>2. CASE q = p
    <3>1. p \in Known
      BY <1>4, <2>2 DEF MarkPeerSeen, SendersConnected, StateInv
    <3>2. /\ table'[p] = [status |-> IF table[p].status = "Disconnected" THEN "Connected"
                                     ELSE table[p].status, recent |-> TRUE]
          /\ table[p].status \in Statuses
      BY <1>1, <3>1 DEF MarkPeerSeen, Known
    <3> QED
      BY <1>1, <2>2, <3>2 DEF Known, Unknown, Statuses
  <2> QED
    BY <2>1, <2>2
<1> QED
  BY <1>2, <1>3, <1>4 DEF SendersConnected

LEMMA StateStep == StateInv /\ [StateNext]_StateVars => StateInv'
<1> SUFFICES ASSUME StateInv, [StateNext]_StateVars PROVE StateInv'
  OBVIOUS
<1>0. /\ table \in [StatePeers -> {Unknown} \cup [status: Statuses, recent: BOOLEAN]]
      /\ asked \in {"never", "recent", "old"}
      /\ entries \in [StatePeers -> 0..MaxEntries]
      /\ version \in 0..MaxVersion
      /\ applier \in [Appliers -> [at: {"idle", "apply"}, read: 0..MaxVersion,
                                   carries: 0..MaxVersion]]
      /\ senders \subseteq StatePeers
  BY DEF StateInv, StateTypeOK
<1>1. ASSUME NEW p \in StatePeers, NEW s \in Statuses, UpdatePeer(p, s)
      PROVE  StateInv'
  <2>1. StateTypeOK' /\ CarriesNewer'
    BY <1>0, <1>1 DEF UpdatePeer, StateInv, StateTypeOK, CarriesNewer
  <2>2. SendersConnected'
    BY <1>0, <1>1 DEF UpdatePeer, StateInv, SendersConnected, Known
  <2> QED
    BY <2>1, <2>2 DEF StateInv
<1>2. ASSUME NEW p \in StatePeers, RemovePeer(p)
      PROVE  StateInv'
  <2>1. StateTypeOK' /\ CarriesNewer'
    BY <1>0, <1>2, StateAssumption DEF RemovePeer, StateInv, StateTypeOK, CarriesNewer
  <2>2. SendersConnected'
    BY <1>0, <1>2 DEF RemovePeer, StateInv, SendersConnected, Known
  <2> QED
    BY <2>1, <2>2 DEF StateInv
<1>3. ASSUME NEW p \in StatePeers, Join(p)
      PROVE  StateInv'
  <2>1. StateTypeOK' /\ CarriesNewer'
    BY <1>0, <1>3, StateAssumption DEF Join, StateInv, StateTypeOK, CarriesNewer, Statuses
  <2>2. SendersConnected'
    BY <1>0, <1>3 DEF Join, StateInv, SendersConnected, Known
  <2> QED
    BY <2>1, <2>2 DEF StateInv
<1>4. ASSUME NEW p \in StatePeers, AddClusterPeer(p)
      PROVE  StateInv'
  BY <1>0, <1>4, StateAssumption
  DEF AddClusterPeer, StateInv, StateTypeOK, CarriesNewer, SendersConnected, Known
<1>5. ASSUME NEW p \in StatePeers, PeerAges(p)
      PROVE  StateInv'
  <2>1. table[p] \in [status: Statuses, recent: BOOLEAN]
    BY <1>0, <1>5 DEF PeerAges, Unknown
  <2>2. StateTypeOK' /\ CarriesNewer'
    BY <1>0, <1>5, <2>1 DEF PeerAges, StateInv, StateTypeOK, CarriesNewer
  <2>3. SendersConnected'
    BY <1>0, <1>5, <2>1 DEF PeerAges, StateInv, SendersConnected, Known, Unknown, Statuses
  <2> QED
    BY <2>2, <2>3 DEF StateInv
<1>6. ASSUME NEW p \in StatePeers, ReceiveRequest(p) \/ ReceiveNotice(p)
      PROVE  StateInv'
  BY <1>0, <1>6, SeenKeeps
  DEF ReceiveRequest, ReceiveNotice, StateInv, StateTypeOK, CarriesNewer
<1>7. ASSUME NEW p \in StatePeers, NEW u \in Appliers, NEW v \in 0..MaxVersion,
             ReceiveUpdate(u, p, v)
      PROVE  StateInv'
  <2>1. /\ applier' \in [Appliers -> [at: {"idle", "apply"}, read: 0..MaxVersion,
                                      carries: 0..MaxVersion]]
        /\ CarriesNewer'
    BY <1>0, <1>7, StateAssumption DEF ReceiveUpdate, StateInv, CarriesNewer
  <2> QED
    BY <1>0, <1>7, <2>1, SeenKeeps DEF ReceiveUpdate, StateInv, StateTypeOK
<1>8. CASE RequestAges
  BY <1>0, <1>8
  DEF RequestAges, StateInv, StateTypeOK, CarriesNewer, SendersConnected, Known
<1>9. ASSUME NEW u \in Appliers, ApplyUpdate(u)
      PROVE  StateInv'
  <2>1. StateTypeOK' /\ CarriesNewer'
    BY <1>0, <1>9, StateAssumption
    DEF ApplyUpdate, Resting, StateInv, StateTypeOK, CarriesNewer
  <2> QED
    BY <1>9, <2>1 DEF ApplyUpdate, StateInv, SendersConnected, Known
<1>10. CASE UNCHANGED StateVars
  BY <1>10
  DEF StateVars, StateInv, StateTypeOK, CarriesNewer, SendersConnected, Known
<1> QED
  BY <1>1, <1>2, <1>3, <1>4, <1>5, <1>6, <1>7, <1>8, <1>9, <1>10 DEF StateNext

\* A member's sync version falls only when an update compared itself with a version
\* that was replaced before it was applied.
THEOREM VersionRises == StateSpec => VersionFallsOnlyOnStaleRead
<1>1. StateInv /\ [StateNext]_StateVars =>
        [version' < version =>
           \E u \in Appliers : applier[u].at = "apply" /\ applier[u].read < version]_StateVars
  <2> SUFFICES ASSUME StateInv, StateNext, version' < version
               PROVE  \E u \in Appliers : applier[u].at = "apply" /\ applier[u].read < version
    OBVIOUS
  <2>1. /\ version \in Int
        /\ \A u \in Appliers : applier[u].read \in Int /\ applier[u].carries \in Int
    BY DEF StateInv, StateTypeOK
  <2>2. PICK u \in Appliers : ApplyUpdate(u)
    BY <2>1 DEF StateNext, UpdatePeer, RemovePeer, Join, AddClusterPeer, PeerAges,
                ReceiveRequest, ReceiveNotice, ReceiveUpdate, RequestAges
  <2> QED
    BY <2>1, <2>2 DEF ApplyUpdate, StateInv, CarriesNewer
<1> QED
  BY <1>1, StateInitInv, StateStep, PTL DEF StateSpec, VersionFallsOnlyOnStaleRead

\* A peer that wrote since it was put in the table is asked at every later sync,
\* however long it is silent, until somebody suspends or removes it.
THEOREM SpeakersStayHealthy == StateSpec => []SpeakerStaysHealthy
<1>1. StateInv => SpeakerStaysHealthy
  <2> SUFFICES ASSUME StateInv, NEW p \in senders,
                      table[p].status \notin {"Suspended", "Leaving"}
               PROVE  p \in Healthy
    BY DEF SpeakerStaysHealthy
  <2>1. p \in Known /\ table[p].status # "Disconnected" /\ table[p].status \in Statuses
    BY DEF StateInv, StateTypeOK, SendersConnected, Known
  <2> QED
    BY <2>1 DEF Healthy, Statuses
<1> QED
  BY <1>1, StateInitInv, StateStep, PTL DEF StateSpec

-----------------------------------------------------------------------------
(* CommandLine: commands that run one at a time while the daemon is down.    *)

\* What holds while every command ran apart and none was killed in its write.
ApartHolds ==
  /\ server.at # "down" => CommandsOff
  /\ \A c, d \in Commands : command[c].at # "off" /\ command[d].at # "off" => c = d
  /\ toml.text = "empty" => \E c \in Commands : command[c].at = "truncated"
  /\ toml.has = done
  /\ toml.text = "missing" => toml.has = DefaultCopy
  /\ server.at \in {"start", "up"} => server.has = done
  /\ server.at = "save" => server.has.cluster = done.cluster
  /\ \A c \in Commands : command[c].at = "loaded" => command[c].has = done
  /\ \A c \in Commands : command[c].at \in {"changed", "truncated"}
                           => command[c].has.shares = done.shares

ApartInv == CommandLineTypeOK /\ (apart /\ ~killed => ApartHolds)

LEMMA ApartInit == CommandLineInit => ApartInv
<1> SUFFICES ASSUME CommandLineInit PROVE ApartInv
  OBVIOUS
<1>1. 0 \in Change /\ DefaultCopy \in Copy
  BY CommandLineAssumption DEF Change, DefaultCopy, Copy
<1>2. CommandLineTypeOK
  BY <1>1 DEF CommandLineInit, CommandLineTypeOK
<1>3. ApartHolds
  BY DEF CommandLineInit, ApartHolds, CommandsOff
<1> QED
  BY <1>2, <1>3 DEF ApartInv

LEMMA CommandLineTypes ==
    CommandLineTypeOK /\ [CommandLineNext]_CommandLineVars => CommandLineTypeOK'
<1> SUFFICES ASSUME CommandLineTypeOK, [CommandLineNext]_CommandLineVars
             PROVE  CommandLineTypeOK'
  OBVIOUS
<1> USE CommandLineAssumption DEF CommandLineTypeOK, Change, Copy
<1>1. CASE DaemonLoads
  BY <1>1 DEF DaemonLoads, DefaultCopy
<1>2. CASE DaemonStarts
  BY <1>2 DEF DaemonStarts
<1>3. CASE SharesChange
  BY <1>3 DEF SharesChange
<1>4. CASE DaemonRenames
  BY <1>4 DEF DaemonRenames
<1>5. CASE DaemonEnds
  BY <1>5 DEF DaemonEnds, DefaultCopy
<1>6. ASSUME NEW c \in Commands, CommandLoads(c) PROVE CommandLineTypeOK'
  BY <1>6 DEF CommandLoads, DefaultCopy
<1>7. ASSUME NEW c \in Commands, ClusterChanges(c) PROVE CommandLineTypeOK'
  <2>1. changes' \in Change
    BY <1>7 DEF ClusterChanges
  <2>2. [command[c] EXCEPT !.at = "changed", !.has.cluster = changes']
          \in [at: {"off", "loaded", "changed", "truncated"}, has: Copy]
    BY <2>1
  <2>3. command' = [command EXCEPT ![c] =
                      [command[c] EXCEPT !.at = "changed", !.has.cluster = changes']]
    BY <1>7 DEF ClusterChanges
  <2> QED
    BY <1>7, <2>1, <2>2, <2>3 DEF ClusterChanges
<1>8. ASSUME NEW c \in Commands, CommandTruncates(c) PROVE CommandLineTypeOK'
  BY <1>8 DEF CommandTruncates
<1>9. ASSUME NEW c \in Commands, CommandWrites(c) PROVE CommandLineTypeOK'
  BY <1>9 DEF CommandWrites
<1>10. ASSUME NEW c \in Commands, CommandEnds(c) PROVE CommandLineTypeOK'
  <2>1. killed' \in BOOLEAN
    BY <1>10, Zenon DEF CommandEnds
  <2> QED
    BY <1>10, <2>1 DEF CommandEnds
<1>11. CASE UNCHANGED CommandLineVars
  BY <1>11 DEF CommandLineVars
<1> QED
  BY <1>1, <1>2, <1>3, <1>4, <1>5, <1>6, <1>7, <1>8, <1>9, <1>10, <1>11
  DEF CommandLineNext

LEMMA ApartStep == ApartInv /\ [CommandLineNext]_CommandLineVars => ApartInv'
<1> SUFFICES ASSUME ApartInv, [CommandLineNext]_CommandLineVars, apart', ~killed'
             PROVE  ApartHolds'
  BY CommandLineTypes DEF ApartInv
<1>0. CommandLineTypeOK /\ apart /\ ~killed /\ ApartHolds
  <2>1. CASE UNCHANGED CommandLineVars
    <3>1. apart' = apart /\ killed' = killed
      BY <2>1 DEF CommandLineVars
    <3> QED
      BY <3>1, Zenon DEF ApartInv
  <2>2. CASE DaemonLoads \/ DaemonStarts \/ SharesChange \/ DaemonRenames \/ DaemonEnds
    <3>1. apart' = apart /\ killed' = killed
      BY <2>2 DEF DaemonLoads, DaemonStarts, SharesChange, DaemonRenames, DaemonEnds
    <3> QED
      BY <3>1, Zenon DEF ApartInv
  <2>3. ASSUME NEW c \in Commands,
               CommandLoads(c) \/ ClusterChanges(c) \/ CommandTruncates(c)
                 \/ CommandWrites(c)
        PROVE  CommandLineTypeOK /\ apart /\ ~killed /\ ApartHolds
    <3>1. apart' = apart /\ killed' = killed
      BY <2>3 DEF CommandLoads, ClusterChanges, CommandTruncates, CommandWrites
    <3> QED
      BY <3>1, Zenon DEF ApartInv
  <2>4. ASSUME NEW c \in Commands, CommandEnds(c)
        PROVE  CommandLineTypeOK /\ apart /\ ~killed /\ ApartHolds
    <3>1. apart' = apart
      BY <2>4 DEF CommandEnds
    <3>2. ~killed
      BY <2>4, Zenon DEF CommandEnds
    <3> QED
      BY <3>1, <3>2, Zenon DEF ApartInv
  <2> QED
    BY <2>1, <2>2, <2>3, <2>4, Zenon DEF CommandLineNext
<1> USE <1>0 DEF CommandLineTypeOK, Copy, ApartHolds, CommandsOff
<1>1. CASE DaemonLoads
  BY <1>1 DEF DaemonLoads
<1>2. CASE DaemonStarts
  BY <1>2 DEF DaemonStarts
<1>3. CASE SharesChange
  BY <1>3 DEF SharesChange
<1>4. CASE DaemonRenames
  BY <1>4 DEF DaemonRenames
<1>5. CASE DaemonEnds
  BY <1>5 DEF DaemonEnds
<1>6. ASSUME NEW c \in Commands, CommandLoads(c) PROVE ApartHolds'
  BY <1>6 DEF CommandLoads, MayRun
<1>7. ASSUME NEW c \in Commands, ClusterChanges(c) PROVE ApartHolds'
  BY <1>7 DEF ClusterChanges
<1>8. ASSUME NEW c \in Commands, CommandTruncates(c) PROVE ApartHolds'
  BY <1>8 DEF CommandTruncates
<1>9. ASSUME NEW c \in Commands, CommandWrites(c) PROVE ApartHolds'
  BY <1>9 DEF CommandWrites
<1>10. ASSUME NEW c \in Commands, CommandEnds(c) PROVE ApartHolds'
  <2>1. command[c].at # "truncated"
    BY <1>10, Zenon DEF CommandEnds
  <2>2. /\ command' = [command EXCEPT ![c].at = "off"]
        /\ UNCHANGED <<toml, server, done>> /\ command[c].at # "off"
    BY <1>10 DEF CommandEnds
  <2>3. server.at = "down" /\ \A d \in Commands \ {c} : command[d].at = "off"
    BY <2>2
  <2>4. /\ command'[c].at = "off"
        /\ \A d \in Commands \ {c} : command'[d] = command[d]
    BY <2>2
  <2> QED
    BY <2>1, <2>2, <2>3, <2>4
<1>11. CASE UNCHANGED CommandLineVars
  BY <1>11 DEF CommandLineVars
<1> QED
  BY <1>1, <1>2, <1>3, <1>4, <1>5, <1>6, <1>7, <1>8, <1>9, <1>10, <1>11
  DEF CommandLineNext

\* handle_join and handle_leave write mounts.toml themselves (cli/cluster.rs): commands
\* that run apart from each other and from the daemon, none killed in its write, leave
\* the latest saved change of either kind in it, for any number of commands and changes.
THEOREM ApartLosesNothing == CommandLineSpec => []NothingLostApart
<1>1. ApartInv => NothingLostApart
  BY DEF ApartInv, ApartHolds, NothingLostApart, CommandsOff
<1> QED
  BY <1>1, ApartInit, ApartStep, PTL DEF CommandLineSpec

-----------------------------------------------------------------------------
(* ClusterTransport: what ends early is marked, and the loop stops after one.  *)

LateWhenStopped == serving => late = 0

ServerInv == TransportTypeOK /\ LateWhenStopped /\ ServerLeavesNothing

LEMMA ServerInitInv == TransportInit => ServerInv
<1> SUFFICES ASSUME TransportInit PROVE ServerInv
  OBVIOUS
<1>1. TransportTypeOK
  <2>1. serving \in BOOLEAN /\ draining \in BOOLEAN /\ loop \in BOOLEAN
    BY DEF TransportInit
  <2> QED
    BY <2>1 DEF TransportInit, TransportTypeOK
<1>2. late = 0 /\ listing = {}
  BY DEF TransportInit
<1> QED
  BY <1>1, <1>2 DEF ServerInv, LateWhenStopped, ServerLeavesNothing,
                    LeakOnlyByEarlyReturn, QuietAfterStop

\* A step that leaves the flag, the loop and what was accepted late alone.
LEMMA EntriesKeep ==
    ASSUME ServerInv, UNCHANGED <<serving, loop, late>>, draining' \in BOOLEAN,
           listing' \subseteq Addresses \cup Remotes,
           link' \in [Addresses -> {"none", "auth", "reading"}],
           dialling' \subseteq Remotes, spoilt' \subseteq Addresses,
           \A a \in Addresses :
             a \in listing' /\ link'[a] = "none" =>
               a \in spoilt' \/ (a \in listing /\ link[a] = "none" /\ spoilt' = spoilt)
    PROVE  ServerInv'
<1>1. TransportTypeOK'
  BY DEF ServerInv, TransportTypeOK
<1>2. LeakOnlyByEarlyReturn'
  BY DEF ServerInv, ServerLeavesNothing, LeakOnlyByEarlyReturn
<1>3. LateWhenStopped' /\ QuietAfterStop'
  <2>1. serving' = serving /\ loop' = loop /\ late' = late
    OBVIOUS
  <2>2. LateWhenStopped /\ QuietAfterStop
    BY DEF ServerInv, ServerLeavesNothing
  <2>3. serving \in BOOLEAN /\ loop \in BOOLEAN
    BY DEF ServerInv, TransportTypeOK
  <2> QED
    BY <2>1, <2>2, <2>3 DEF LateWhenStopped, QuietAfterStop
<1> QED
  BY <1>1, <1>2, <1>3 DEF ServerInv, ServerLeavesNothing

LEMMA ServerStep == ServerInv /\ [TransportNext]_TransportVars => ServerInv'
<1> SUFFICES ASSUME ServerInv, [TransportNext]_TransportVars PROVE ServerInv'
  OBVIOUS
<1>0. /\ TransportTypeOK /\ LateWhenStopped /\ LeakOnlyByEarlyReturn /\ QuietAfterStop
      /\ Addresses \cap Remotes = {}
  BY TransportAssumption DEF ServerInv, ServerLeavesNothing
<1> USE DEF TransportTypeOK
<1>1. CASE StartServer
  <2>1. serving' /\ late' = 0 /\ loop' \in BOOLEAN
    BY <1>0, <1>1 DEF StartServer
  <2>2. TransportTypeOK' /\ LeakOnlyByEarlyReturn'
    BY <1>0, <1>1, <2>1 DEF StartServer, LeakOnlyByEarlyReturn
  <2> QED
    BY <2>1, <2>2 DEF ServerInv, ServerLeavesNothing, LateWhenStopped, QuietAfterStop
<1>2. CASE StopServer
  <2>1. ~serving' /\ late' = late /\ loop' = loop
    BY <1>2 DEF StopServer
  <2>2. TransportTypeOK' /\ LeakOnlyByEarlyReturn'
    BY <1>0, <1>2 DEF StopServer, LeakOnlyByEarlyReturn
  <2>3. QuietAfterStop'
    <3>1. CASE serving
      BY <1>0, <2>1, <3>1 DEF LateWhenStopped, QuietAfterStop
    <3>2. CASE ~serving
      BY <1>0, <2>1, <3>2, Zenon DEF QuietAfterStop
    <3> QED
      BY <3>1, <3>2
  <2> QED
    BY <2>1, <2>2, <2>3 DEF ServerInv, ServerLeavesNothing, LateWhenStopped
<1>3. CASE DrainConnections
  BY <1>0, <1>3, EntriesKeep DEF DrainConnections
<1>4. ASSUME NEW a \in Addresses, AcceptLink(a) PROVE ServerInv'
  <2>1. TransportTypeOK' /\ LeakOnlyByEarlyReturn'
    <3>1. late' \in 0..2
      BY <1>0, <1>4 DEF AcceptLink, QuietAfterStop
    <3>2. loop' \in BOOLEAN /\ serving' \in BOOLEAN /\ draining' \in BOOLEAN
      BY <1>0, <1>4 DEF AcceptLink
    <3>3. TransportTypeOK'
      BY <1>0, <1>4, <3>1, <3>2 DEF AcceptLink
    <3> QED
      BY <1>0, <1>4, <3>3 DEF AcceptLink, LeakOnlyByEarlyReturn
  <2>2. CASE serving
    <3>1. late' = 0 /\ serving'
      BY <1>0, <1>4, <2>2 DEF AcceptLink, LateWhenStopped
    <3> QED
      BY <2>1, <3>1 DEF ServerInv, ServerLeavesNothing, LateWhenStopped, QuietAfterStop
  <2>3. CASE ~serving
    <3>1. loop' = serving /\ loop /\ late' = late + 1 /\ serving' = serving
      BY <1>4, <2>3 DEF AcceptLink
    <3>2. late = 0
      BY <1>0, <2>3, <3>1 DEF QuietAfterStop
    <3>3. ~loop' /\ ~serving'
      BY <2>3, <3>1, Zenon
    <3>4. late' = 1
      BY <3>1, <3>2
    <3> QED
      BY <2>1, <3>3, <3>4 DEF ServerInv, ServerLeavesNothing, LateWhenStopped,
                              QuietAfterStop
  <2> QED
    BY <2>2, <2>3
<1>5. ASSUME NEW a \in Addresses, AuthenticateLink(a) PROVE ServerInv'
  BY <1>0, <1>5, EntriesKeep DEF AuthenticateLink, LeakOnlyByEarlyReturn
<1>6. ASSUME NEW a \in Addresses, CloseLink(a) PROVE ServerInv'
  BY <1>0, <1>6, EntriesKeep DEF CloseLink, LeakOnlyByEarlyReturn
<1>7. ASSUME NEW a \in Addresses, UnreadableMessage(a) PROVE ServerInv'
  BY <1>0, <1>7, EntriesKeep DEF UnreadableMessage, LeakOnlyByEarlyReturn
<1>8. ASSUME NEW r \in Remotes, DialPeer(r) PROVE ServerInv'
  BY <1>0, <1>8, EntriesKeep DEF DialPeer
<1>9. ASSUME NEW r \in Remotes, DialEnds(r) PROVE ServerInv'
  <2>1. listing' = listing \/ listing' = listing \cup {r}
    BY <1>9 DEF DialEnds
  <2> QED
    BY <1>0, <1>9, <2>1, EntriesKeep DEF DialEnds
<1>10. ASSUME NEW r \in Remotes, DisconnectPeer(r) PROVE ServerInv'
  BY <1>0, <1>10, EntriesKeep DEF DisconnectPeer
<1>11. CASE UNCHANGED TransportVars
  BY <1>0, <1>11, EntriesKeep DEF TransportVars
<1> QED
  BY <1>1, <1>2, <1>3, <1>4, <1>5, <1>6, <1>7, <1>8, <1>9, <1>10, <1>11
  DEF TransportNext

\* The accept loop reads the flag after each connection and most error paths return
\* before the clean-up (network/tcp.rs): for any number of links and peers, an entry
\* outlives its link only by such a return, and a stopped server takes one more link.
THEOREM ServerStaysQuiet == TransportSpec => []ServerLeavesNothing
<1>1. ServerInv => ServerLeavesNothing
  BY DEF ServerInv
<1> QED
  BY <1>1, ServerInitInv, ServerStep, PTL DEF TransportSpec

-----------------------------------------------------------------------------
(* ConfigMerge: what a merge keeps does not depend on the order.            *)

\* Every set of naturals has a least element.
LEMMA LeastNumber ==
  ASSUME NEW S, S \subseteq Nat, S # {}
  PROVE  \E m \in S : \A c \in S : m <= c
<1> DEFINE R == {ss \in Nat \X Nat : ss[1] < ss[2]}
<1>1. IsWellFoundedOn(R, Nat)
  BY NatLessThanWellFounded, Zenon DEF OpToRel
<1>2. PICK m \in S : \A c \in S : <<c, m>> \notin R
  <2> HIDE DEF R
  <2> QED
    BY <1>1, WFMin
<1>3. \A c \in S : m <= c
  <2> TAKE c \in S
  <2>1. <<c, m>> \in Nat \X Nat /\ <<c, m>> \notin R
    BY <1>2
  <2>2. ~(c < m)
    BY <2>1
  <2> QED
    BY <2>2
<1> QED
  BY <1>3

LEMMA MinOf ==
  ASSUME NEW S, S \subseteq Nat, S # {}
  PROVE  Min(S) \in S /\ \A c \in S : Min(S) <= c
  BY LeastNumber DEF Min

\* A finite set has an element where a function into the naturals is greatest: a
\* least subset without one would lose its last element.
LEMMA GreatestOf ==
  ASSUME NEW D, IsFiniteSet(D), D # {}, NEW f \in [D -> Nat]
  PROVE  \E i \in D : \A j \in D : f[j] <= f[i]
<1> DEFINE Has(U) == \E i \in U : \A j \in U : f[j] <= f[i]
           T == {U \in SUBSET D : U # {} /\ ~Has(U)}
<1> SUFFICES ASSUME T # {} PROVE FALSE
  OBVIOUS
<1>1. T \subseteq FiniteSubsetsOf(D) /\ T \subseteq SUBSET D
  BY FS_FiniteSubsetsOfFinite
<1>2. IsWellFoundedOn(StrictSubsetOrdering(D), FiniteSubsetsOf(D))
  BY FS_StrictSubsetOrderingWellFounded
<1>3. PICK U \in T : \A V \in T : <<V, U>> \notin StrictSubsetOrdering(D)
  <2> HIDE DEF T
  <2> QED
    BY <1>1, <1>2, WFMin
<1>4. PICK x \in U : TRUE
  BY <1>3
<1> DEFINE V == U \ {x}
<1>5. V \notin T
  <2>1. V \in SUBSET D /\ U \in SUBSET D /\ V \subseteq U /\ V # U
    BY <1>1, <1>3, <1>4
  <2>2. <<V, U>> \in StrictSubsetOrdering(D)
    <3> HIDE DEF V
    <3> QED
      BY <2>1 DEF StrictSubsetOrdering
  <2> QED
    BY <1>3, <2>2
<1>6. CASE V = {}
  <2>1. U = {x} /\ f[x] \in Nat
    BY <1>3, <1>4, <1>6
  <2> QED
    BY <1>3, <2>1
<1>7. CASE V # {}
  <2>1. PICK i \in V : \A j \in V : f[j] <= f[i]
    BY <1>3, <1>5, <1>7
  <2>2. /\ i \in U /\ f[i] \in Nat /\ f[x] \in Nat
        /\ \A j \in U : j = x \/ j \in V
        /\ \A j \in U : f[j] \in Nat
    BY <1>3, <1>4, <2>1
  <2>3. CASE f[x] <= f[i]
    BY <1>3, <2>1, <2>2, <2>3
  <2>4. CASE f[i] <= f[x]
    <3>1. \A j \in U : f[j] <= f[x]
      <4> TAKE j \in U
      <4>1. CASE j = x
        BY <2>2, <4>1
      <4>2. CASE j \in V
        BY <2>1, <2>2, <2>4, <4>2
      <4> QED
        BY <2>2, <4>1, <4>2
    <3> QED
      BY <1>3, <1>4, <3>1
  <2> QED
    BY <2>2, <2>3, <2>4
<1> QED
  BY <1>6, <1>7

AtOf(i, m) == inputs[i].mounts[m].at

\* The latest timestamp of a mount is some member's, and no member has a later one.
LEMMA LatestHolds ==
  ASSUME inputs \in [Members -> Configuration], NEW m \in MergeMounts, HadBy(m) # {}
  PROVE  /\ Holders(m) # {} /\ Holders(m) \subseteq HadBy(m) /\ HadBy(m) \subseteq Members
         /\ \A i \in Holders(m) : \A j \in HadBy(m) :
              /\ AtOf(i, m) \in Nat /\ AtOf(j, m) \in Nat /\ AtOf(j, m) <= AtOf(i, m)
              /\ AtOf(j, m) = AtOf(i, m) => j \in Holders(m)
<1>1. \A i \in HadBy(m) : AtOf(i, m) \in Clock /\ AtOf(i, m) \in Nat
  <2> TAKE i \in HadBy(m)
  <2>1. inputs[i].mounts[m] \in Version
    BY DEF HadBy, Configuration
  <2>2. inputs[i].mounts[m] \in [at: Clock, content: Contents]
    BY <2>1 DEF HadBy, Version
  <2> QED
    BY <2>2, MergeAssumption DEF AtOf
<1>2. IsFiniteSet(HadBy(m)) /\ HadBy(m) \subseteq Members
  BY MergeAssumption, FS_Subset DEF HadBy
<1> DEFINE f == [i \in HadBy(m) |-> AtOf(i, m)]
           S == {inputs[i].mounts[m].at : i \in HadBy(m)}
<1>3. PICK g \in HadBy(m) : \A j \in HadBy(m) : AtOf(j, m) <= AtOf(g, m)
  <2>1. f \in [HadBy(m) -> Nat]
    BY <1>1
  <2>2. \E i \in HadBy(m) : \A j \in HadBy(m) : f[j] <= f[i]
    <3> HIDE DEF f
    <3> QED
      BY <1>2, <2>1, GreatestOf
  <2> QED
    BY <2>2
<1>4. \E x \in S : \A y \in S : x >= y
  <2>1. AtOf(g, m) \in S /\ \A y \in S : AtOf(g, m) >= y
    BY <1>1, <1>3 DEF AtOf
  <2> QED
    BY <2>1
<1>5. LatestTime(m) \in S /\ \A y \in S : LatestTime(m) >= y
  <2>1. LatestTime(m) = CHOOSE x \in S : \A y \in S : x >= y
    BY DEF LatestTime, Max
  <2> HIDE DEF S
  <2> QED
    BY <1>4, <2>1
<1>6. Holders(m) = {i \in HadBy(m) : AtOf(i, m) = LatestTime(m)}
  BY DEF Holders, AtOf
<1>7. Holders(m) # {} /\ Holders(m) \subseteq HadBy(m)
  BY <1>5, <1>6 DEF AtOf
<1>8. \A j \in HadBy(m) : AtOf(j, m) <= LatestTime(m)
  BY <1>1, <1>5 DEF AtOf
<1> QED
  BY <1>1, <1>2, <1>6, <1>7, <1>8

LEMMA WinnerHolds ==
  ASSUME inputs \in [Members -> Configuration], NEW m \in MergeMounts, HadBy(m) # {}
  PROVE  Winner(m) = Min(Holders(m)) /\ Winner(m) \in Holders(m)
<1>1. Holders(m) = {i \in HadBy(m) : \A j \in HadBy(m) : AtOf(j, m) <= AtOf(i, m)}
  BY LatestHolds
<1>2. Winner(m) = Min(Holders(m))
  BY <1>1 DEF Winner, AtOf
<1>3. Holders(m) \subseteq Nat /\ Holders(m) # {}
  BY LatestHolds, MergeAssumption
<1> QED
  BY <1>2, <1>3, MinOf

\* The order in which a merge sees the configurations names each of them.
Ordering(order) ==
  /\ order \in [1..Cardinality(Members) -> Members]
  /\ \A i \in Members : \E k \in DOMAIN order : order[k] = i

LEMMA FirstHolds ==
  ASSUME inputs \in [Members -> Configuration], NEW m \in MergeMounts, HadBy(m) # {},
         NEW order, Ordering(order)
  PROVE  First(m, order) \in Holders(m)
<1> DEFINE K == {k \in DOMAIN order : order[k] \in Holders(m)}
<1>1. Cardinality(Members) \in Nat
  BY MergeAssumption, FS_CardinalityType
<1>2. K \subseteq Nat /\ K # {}
  BY <1>1, LatestHolds DEF Ordering
<1>3. Min(K) \in K
  <2> HIDE DEF K
  <2> QED
    BY <1>2, MinOf
<1> QED
  BY <1>3 DEF First

\* What is chosen has the winner's version, and is the winner where it is disputed.
LEMMA ChosenIsWinner ==
  ASSUME inputs \in [Members -> Configuration], NEW m \in MergeMounts, HadBy(m) # {},
         NEW order, Ordering(order)
  PROVE  /\ inputs[Chosen(m, order)].mounts[m] = inputs[Winner(m)].mounts[m]
         /\ Disputed(m, order) => Chosen(m, order) = Winner(m)
<1>1. First(m, order) \in Holders(m)
  BY FirstHolds
<1>2. Winner(m) = Min(Holders(m)) /\ Winner(m) \in Holders(m)
  BY WinnerHolds
<1>3. CASE Disputed(m, order)
  BY <1>2, <1>3 DEF Chosen
<1>4. CASE ~Disputed(m, order)
  <2> DEFINE a == inputs[First(m, order)].mounts[m]
             b == inputs[Winner(m)].mounts[m]
  <2>1. a.content = b.content
    <3>1. \A i \in Holders(m) :
            inputs[i].mounts[m].content = inputs[First(m, order)].mounts[m].content
      BY <1>4 DEF Disputed
    <3> QED
      BY <1>2, <3>1
  <2>2. a.at = b.at
    BY <1>1, <1>2 DEF Holders
  <2>3. \A i \in HadBy(m) : inputs[i].mounts[m] \in [at: Clock, content: Contents]
    <3> TAKE i \in HadBy(m)
    <3>1. inputs[i] \in Configuration
      BY DEF HadBy
    <3>2. inputs[i].mounts[m] \in Version
      BY <3>1 DEF Configuration
    <3> QED
      BY <3>2 DEF HadBy, Version
  <2>4. a \in [at: Clock, content: Contents] /\ b \in [at: Clock, content: Contents]
    BY <1>1, <1>2, <2>3 DEF Holders
  <2>5. a = b
    <3> HIDE DEF a, b
    <3> QED
      BY <2>1, <2>2, <2>4
  <2> QED
    BY <1>4, <2>5 DEF Chosen
<1> QED
  BY <1>3, <1>4

\* For any members, mounts, contents and clocks: a merge keeps the latest version of
\* each mount, by the smallest instance id where members disagree, in whatever order
\* the configurations come, and what it drops without a conflict is older or the
\* same (sync/merge.rs:95-330).
THEOREM MergesAreSound == MergeSpec => []MergeIsSound
<1> DEFINE Inv == inputs \in [Members -> Configuration] /\ MergeIsSound
<1>1. MergeInit => Inv
  BY DEF MergeInit, MergeIsSound, MergeIsDeterministic, NoEditLostSilently, Merged
<1>2. Inv /\ [MergeNext]_MergeVars => Inv'
  <2> SUFFICES ASSUME Inv, [MergeNext]_MergeVars PROVE Inv'
    OBVIOUS
  <2>1. CASE UNCHANGED MergeVars
    <3>1. inputs' = inputs /\ merged' = merged /\ conflicts' = conflicts
      BY <2>1 DEF MergeVars
    <3>2. \A m : HadBy(m)' = HadBy(m) /\ Winner(m)' = Winner(m)
      BY <3>1 DEF HadBy, Winner
    <3>3. MergeIsDeterministic'
      BY <3>1, <3>2 DEF MergeIsSound, MergeIsDeterministic, Merged
    <3>4. NoEditLostSilently'
      BY <3>1, <3>2 DEF MergeIsSound, NoEditLostSilently, Merged
    <3> QED
      BY <3>1, <3>3, <3>4 DEF MergeIsSound
  <2>2. CASE MergeConfigs
    <3>1. PICK order \in [1..Cardinality(Members) -> Members] :
            /\ \A i \in Members : \E k \in DOMAIN order : order[k] = i
            /\ merged' = [mounts |-> [m \in MergeMounts |-> ResolveMount(m, order)],
                          sync |-> LatestSync + 1, announced |-> LatestSync + 2,
                          settings |-> MergeSettings(order)]
            /\ conflicts' = ConflictsOf(order)
      BY <2>2 DEF MergeConfigs
    <3>2. inputs' = inputs /\ Ordering(order)
      BY <2>2, <3>1 DEF MergeConfigs, Ordering
    <3>3. \A m \in MergeMounts : merged'.mounts[m] = ResolveMount(m, order)
      BY <3>1
    <3>4. \A m : HadBy(m)' = HadBy(m) /\ Winner(m)' = Winner(m)
      BY <3>2 DEF HadBy, Winner
    <3>5. ASSUME NEW m \in MergeMounts
          PROVE  merged'.mounts[m] = IF HadBy(m) = {} THEN Absent
                                     ELSE inputs[Winner(m)].mounts[m]
      BY <3>2, <3>3, ChosenIsWinner DEF ResolveMount
    <3>6. ASSUME NEW c \in conflicts'
          PROVE  /\ c.mount \in MergeMounts /\ HadBy(c.mount) # {}
                 /\ c.members = Holders(c.mount) /\ c.used = Winner(c.mount)
      <4>1. PICK m \in MergeMounts :
              /\ HadBy(m) # {} /\ Disputed(m, order)
              /\ c = [mount |-> m, members |-> Holders(m), used |-> Chosen(m, order)]
        BY <3>1, <3>6 DEF ConflictsOf
      <4>2. Chosen(m, order) = Winner(m)
        BY <3>2, <4>1, ChosenIsWinner
      <4> QED
        BY <4>1, <4>2
    <3>7. ASSUME NEW c \in conflicts', NEW i \in Members
          PROVE  i \in c.members <=>
                   inputs[i].mounts[c.mount].at = inputs[c.used].mounts[c.mount].at
      <4> DEFINE m == c.mount
      <4>1. /\ m \in MergeMounts /\ HadBy(m) # {} /\ c.members = Holders(m)
            /\ c.used = Winner(m) /\ Winner(m) \in Holders(m)
        BY <3>6, WinnerHolds
      <4> HIDE DEF m
      <4>2. CASE i \in HadBy(m)
        BY <4>1, <4>2, LatestHolds DEF AtOf, Holders, m
      <4>3. CASE i \notin HadBy(m)
        <5>1. inputs[i].mounts[m].at = 0 /\ i \notin Holders(m)
          BY <4>3 DEF HadBy, Holders, Absent
        <5>2. inputs[Winner(m)].mounts[m] \in Version
              /\ inputs[Winner(m)].mounts[m] # Absent
          BY <4>1 DEF Holders, HadBy, Configuration
        <5>3. inputs[Winner(m)].mounts[m].at \in Clock
          BY <5>2 DEF Version
        <5> QED
          BY <4>1, <5>1, <5>3, MergeAssumption DEF m
      <4> QED
        BY <4>2, <4>3
    <3>8. MergeIsDeterministic'
      BY <3>2, <3>4, <3>5, <3>6, <3>7 DEF MergeIsDeterministic
    <3>9. ASSUME NEW m \in MergeMounts, NEW i \in HadBy(m)
          PROVE  \/ inputs[i].mounts[m].at < merged'.mounts[m].at
                 \/ inputs[i].mounts[m] = merged'.mounts[m]
                 \/ \E c \in conflicts' : c.mount = m /\ i \in c.members
      <4>1. /\ Winner(m) \in Holders(m) /\ merged'.mounts[m] = inputs[Winner(m)].mounts[m]
        BY <3>5, <3>9, WinnerHolds
      <4>2. CASE i \notin Holders(m)
        BY <3>9, <4>1, <4>2, LatestHolds DEF AtOf
      <4>3. CASE i \in Holders(m) /\ Disputed(m, order)
        <5>1. [mount |-> m, members |-> Holders(m), used |-> Chosen(m, order)]
                \in conflicts'
          BY <3>1, <3>9, <4>3 DEF ConflictsOf
        <5> QED
          BY <4>3, <5>1
      <4>4. CASE i \in Holders(m) /\ ~Disputed(m, order)
        <5> DEFINE a == inputs[i].mounts[m]
                   b == inputs[Winner(m)].mounts[m]
        <5>1. a.content = b.content /\ a.at = b.at
          BY <4>1, <4>4 DEF Disputed, Holders
        <5>2. a \in [at: Clock, content: Contents] /\ b \in [at: Clock, content: Contents]
          BY <3>9, <4>1, <4>4 DEF HadBy, Holders, Configuration, Version
        <5>3. a = b
          <6> HIDE DEF a, b
          <6> QED
            BY <5>1, <5>2
        <5> QED
          BY <4>1, <5>3
      <4> QED
        BY <4>2, <4>3, <4>4
    <3>10. NoEditLostSilently'
      BY <3>2, <3>4, <3>9 DEF NoEditLostSilently
    <3> QED
      BY <3>2, <3>8, <3>10 DEF MergeIsSound
  <2> QED
    BY <2>1, <2>2 DEF MergeNext
<1> QED
  BY <1>1, <1>2, PTL DEF MergeSpec

-----------------------------------------------------------------------------
(* ProcessIsolation: what a clone has set up when its command starts.            *)

SetupNames == {"hostname", "private", "mountPoints", "chroot", "network", "setuid",
               "setgid"}
Made == [is : {"ours"}, how : {"clone", "unshare"}, config : IsolationConfigs,
         confined : SUBSET SetupNames, zombie : BOOLEAN]

\* What ClonedAreConfined says of one process.
ConfinedAs(r) ==
  r.is = "ours" /\ r.how = "clone" /\ ~r.zombie =>
    /\ "uts" \in r.config => "hostname" \in r.confined
    /\ "mounts" \in r.config => {"private", "mountPoints"} \subseteq r.confined
    /\ {"mounts", "root"} \subseteq r.config => "chroot" \in r.confined
    /\ "network" \in r.config => "network" \in r.confined
    /\ "uid" \in r.config => "setuid" \in r.confined
    /\ "gid" \in r.config => "setgid" \in r.confined
    /\ ~{"uid", "gid"} \subseteq r.config

IsolationInv ==
  /\ process \in [Pids -> Made \cup {Free, Foreign}]
  /\ tracked \in [Keepers -> [Pids -> {"none", "Running", "Killed"}]]
  /\ strayed \subseteq Pids /\ tempDir \in BOOLEAN /\ sandboxes \subseteq Sandboxes
  /\ \A p \in Pids : /\ ConfinedAs(process[p])
                     /\ (process[p].is = "ours" /\ process[p].how = "clone")
                          => Tracks(Isolator, p)

\* Which step belongs to which option.
LEMMA StepsOfOptions ==
  ASSUME NEW c
  PROVE  /\ SetupSteps(c) \subseteq SetupNames
         /\ "hostname" \in SetupSteps(c) <=> "uts" \in c
         /\ "private" \in SetupSteps(c) <=> "mounts" \in c
         /\ "mountPoints" \in SetupSteps(c) <=> "mounts" \in c
         /\ "chroot" \in SetupSteps(c) <=> {"mounts", "root"} \subseteq c
         /\ "network" \in SetupSteps(c) <=> "network" \in c
         /\ "setuid" \in SetupSteps(c) <=> "uid" \in c
         /\ "setgid" \in SetupSteps(c) <=> "gid" \in c
<1> DEFINE askedOf == [hostname |-> "uts" \in c, private |-> "mounts" \in c,
                     mountPoints |-> "mounts" \in c,
                     chroot |-> {"mounts", "root"} \subseteq c,
                     network |-> "network" \in c, setuid |-> "uid" \in c,
                     setgid |-> "gid" \in c]
<1>1. SetupSteps(c) = {t \in DOMAIN askedOf : askedOf[t]}
  BY DEF SetupSteps
<1>2. DOMAIN askedOf = SetupNames
  BY DEF SetupNames
<1>3. /\ askedOf["hostname"] = ("uts" \in c) /\ askedOf["private"] = ("mounts" \in c)
      /\ askedOf["mountPoints"] = ("mounts" \in c)
      /\ askedOf["chroot"] = ({"mounts", "root"} \subseteq c)
      /\ askedOf["network"] = ("network" \in c) /\ askedOf["setuid"] = ("uid" \in c)
      /\ askedOf["setgid"] = ("gid" \in c)
  OBVIOUS
<1> HIDE DEF askedOf
<1> QED
  BY <1>1, <1>2, <1>3 DEF SetupNames

\* A process that clone made is set up in full, or its command does not start.
LEMMA CloneIsSetUp ==
  ASSUME NEW c \in IsolationConfigs, NEW failing
  PROVE  LET r == IF FailsAt(c, failing) THEN Ended ELSE Ours("clone", c, SetupSteps(c))
         IN r \in Made /\ ConfinedAs(r)
<1>1. Ended \in Made /\ Ended.zombie
  BY DEF Ended, Ours, Made, IsolationConfigs
<1>2. ASSUME ~FailsAt(c, failing)
      PROVE  Ours("clone", c, SetupSteps(c)) \in Made
             /\ ConfinedAs(Ours("clone", c, SetupSteps(c)))
  <2>1. PICK r : r = Ours("clone", c, SetupSteps(c))
    OBVIOUS
  <2>2. r \in Made
    BY <2>1, StepsOfOptions DEF Ours, Made
  <2>3. r.config = c /\ r.confined = SetupSteps(c)
    BY <2>1 DEF Ours
  <2>4. ~({"setuid", "setgid"} \subseteq SetupSteps(c))
    BY <1>2 DEF FailsAt
  <2>5. ConfinedAs(r)
    BY <2>3, <2>4, StepsOfOptions DEF ConfinedAs
  <2> QED
    BY <2>1, <2>2, <2>5
<1> QED
  BY <1>1, <1>2 DEF ConfinedAs

LEMMA IsolationStep == IsolationInv /\ [IsolationNext]_IsolationVars => IsolationInv'
<1> SUFFICES ASSUME IsolationInv, [IsolationNext]_IsolationVars PROVE IsolationInv'
  OBVIOUS
<1> USE DEF IsolationInv
<1>f. /\ Free \notin Made /\ Foreign \notin Made /\ Free.is = "free"
      /\ Foreign.is = "foreign" /\ Isolator \in Keepers /\ Sandboxes \subseteq Keepers
  BY DEF Free, Foreign, Made, Keepers
<1>1. ASSUME NEW p \in Pids, NEW c \in IsolationConfigs, NEW failing,
             CreateIsolatedProcess(p, c, failing)
      PROVE  IsolationInv'
  <2>1. PICK r : /\ process' = [process EXCEPT ![p] = r]
                 /\ r \in Made /\ ConfinedAs(r)
    BY <1>1, CloneIsSetUp DEF CreateIsolatedProcess
  <2>2. tracked' = [tracked EXCEPT ![Isolator][p] = "Running"]
    BY <1>1 DEF CreateIsolatedProcess
  <2>3. tracked' \in [Keepers -> [Pids -> {"none", "Running", "Killed"}]]
    BY <2>2, <1>f
  <2>4. \A q \in Pids : tracked'[Isolator][q] =
                          IF q = p THEN "Running" ELSE tracked[Isolator][q]
    BY <2>2, <1>f
  <2> QED
    BY <1>1, <2>1, <2>3, <2>4 DEF CreateIsolatedProcess, Tracks
<1>2. ASSUME NEW s \in Sandboxes, NEW p \in Pids, Execute(s, p) PROVE IsolationInv'
  <2>1. PICK kept \in SUBSET ConfinedByUnshare(Sandboxed) :
               process' = [process EXCEPT ![p] = Ours("unshare", Sandboxed, kept)]
    BY <1>2 DEF Execute
  <2> DEFINE r == Ours("unshare", Sandboxed, kept)
  <2>2. r \in Made /\ r.how = "unshare"
    BY DEF Ours, Made, Sandboxed, IsolationConfigs, ConfinedByUnshare, SetupNames
  <2>3. tracked' \in [Keepers -> [Pids -> {"none", "Running", "Killed"}]]
    BY <1>2, <1>f DEF Execute
  <2>4. \A q \in Pids : tracked[Isolator][q] # "none" => tracked'[Isolator][q] # "none"
    BY <1>2, <1>f DEF Execute
  <2>5. process' = [process EXCEPT ![p] = r]
    BY <2>1
  <2> HIDE DEF r
  <2>6. ConfinedAs(r)
    BY <2>2 DEF ConfinedAs
  <2> QED
    BY <1>2, <2>2, <2>3, <2>4, <2>5, <2>6 DEF Execute, Tracks
<1>3. ASSUME NEW p \in Pids, Ends(p) PROVE IsolationInv'
  <2>1. process[p] \in Made
    BY <1>3, <1>f DEF Ends
  <2>2. Ended \in Made /\ Ended.zombie /\ Ended.how = "clone" /\ Ended.is = "ours"
    BY DEF Ended, Ours, Made, IsolationConfigs
  <2>4. PICK r : /\ process' = [process EXCEPT ![p] = r] /\ r \in Made \cup {Free}
                 /\ ConfinedAs(r)
                 /\ r.is = "ours" => r.how = process[p].how /\ process[p].is = "ours"
    <3>1. CASE process[p].how = "clone"
      BY <1>3, <2>2, <3>1 DEF Ends, ConfinedAs
    <3>2. CASE process[p].how # "clone"
      BY <1>3, <1>f, <3>2 DEF Ends, ConfinedAs
    <3> QED
      BY <3>1, <3>2
  <2> QED
    BY <1>3, <2>4 DEF Ends, Tracks
<1>4. ASSUME NEW p \in Pids, ForeignProcess(p) PROVE IsolationInv'
  <2>1. PICK r \in {Free, Foreign} : process' = [process EXCEPT ![p] = r]
    BY <1>4 DEF ForeignProcess
  <2>2. r.is # "ours"
    BY <1>f
  <2> QED
    BY <1>4, <2>1, <2>2 DEF ForeignProcess, Tracks, ConfinedAs
<1>5. ASSUME NEW s \in Sandboxes, NewSandbox(s) PROVE IsolationInv'
  BY <1>5 DEF NewSandbox, Tracks
<1>6. ASSUME NEW s \in Sandboxes, Cleanup(s) PROVE IsolationInv'
  <2>1. tracked' \in [Keepers -> [Pids -> {"none", "Running", "Killed"}]]
    BY <1>6, <1>f DEF Cleanup
  <2>2. \A q \in Pids : tracked[Isolator][q] # "none" => tracked'[Isolator][q] # "none"
    BY <1>6, <1>f DEF Cleanup
  <2>3. process' = process /\ strayed' \subseteq Pids /\ tempDir' \in BOOLEAN
        /\ sandboxes' \subseteq Sandboxes
    BY <1>6 DEF Cleanup, StraysTo
  <2> QED
    BY <2>1, <2>2, <2>3 DEF Tracks
<1>7. ASSUME NEW o \in Keepers, NEW p \in Pids, TerminateIsolatedProcess(o, p)
      PROVE  IsolationInv'
  <2>1. tracked' \in [Keepers -> [Pids -> {"none", "Running", "Killed"}]]
    BY <1>7 DEF TerminateIsolatedProcess
  <2>2. \A q \in Pids : tracked[Isolator][q] # "none" => tracked'[Isolator][q] # "none"
    BY <1>7, <1>f DEF TerminateIsolatedProcess
  <2> QED
    BY <1>7, <2>1, <2>2 DEF TerminateIsolatedProcess, Tracks, StraysTo
<1>8. ASSUME NEW o \in Keepers, CleanupTerminatedProcesses(o) PROVE IsolationInv'
  <2>1. tracked' \in [Keepers -> [Pids -> {"none", "Running", "Killed"}]]
    BY <1>8 DEF CleanupTerminatedProcesses
  <2>2. \A q \in Pids : process[q] # Free /\ tracked[Isolator][q] # "none"
                          => tracked'[Isolator][q] # "none"
    BY <1>8, <1>f DEF CleanupTerminatedProcesses
  <2>3. \A q \in Pids : process[q].is = "ours" => process[q] # Free
    BY <1>f
  <2> QED
    BY <1>8, <2>1, <2>2, <2>3 DEF CleanupTerminatedProcesses, Tracks, StraysTo
<1>9. CASE UNCHANGED IsolationVars
  BY <1>9 DEF IsolationVars, Tracks, ConfinedAs
<1> QED
  BY <1>1, <1>2, <1>3, <1>4, <1>5, <1>6, <1>7, <1>8, <1>9 DEF IsolationNext

LEMMA IsolationHolds == IsolationSpec => []IsolationInv
<1>1. IsolationInit => IsolationInv
  <2> SUFFICES ASSUME IsolationInit PROVE IsolationInv
    OBVIOUS
  <2>1. Free.is # "ours"
    BY DEF Free
  <2>2. process \in [Pids -> Made \cup {Free, Foreign}] /\ \A p \in Pids : process[p] = Free
    BY DEF IsolationInit
  <2>3. \A p \in Pids : /\ ConfinedAs(process[p])
                        /\ (process[p].is = "ours" /\ process[p].how = "clone")
                             => Tracks(Isolator, p)
    BY <2>1, <2>2 DEF ConfinedAs
  <2> QED
    BY <2>2, <2>3 DEF IsolationInit, IsolationInv
<1> QED
  BY <1>1, IsolationStep, PTL DEF IsolationSpec

\* However set-ups fail, processes end, pids are given again, and keepers terminate
\* and clean up: a command that clone started runs with all its configuration asked
\* for, and the isolator knows it as long as its pid is taken.
THEOREM ClonesStayConfined == IsolationSpec => []ClonedAreConfined
<1>1. IsolationInv => ClonedAreConfined
  BY DEF IsolationInv, ClonedAreConfined, ConfinedAs
<1> QED
  BY <1>1, IsolationHolds, PTL

-----------------------------------------------------------------------------
(* Seccomp: what a program answers, and the filters that are counted as real.    *)

\* A run of n steps, each from the one before.
RunsFor(t, n, program, arch, nr) ==
  t = [k \in 0..n |-> IF k = 0 THEN Registers(1, "none") ELSE StepFrom(t[k - 1], program, arch, nr)]

\* A sequence is one of its own elements, and keeps its beginning when another follows.
LEMMA OwnElements ==
  ASSUME NEW S, NEW s \in Seq(S)
  PROVE  s \in Seq(Range(s))
<1>1. PICK n \in Nat : s \in [1..n -> S]
  BY SeqDef
<1>2. s = [i \in 1..n |-> s[i]]
  BY <1>1
<1>3. s \in [1..n -> Range(s)]
  BY <1>1, <1>2 DEF Range
<1> QED
  BY <1>3, SeqDef

LEMMA BeginningStays ==
  ASSUME NEW S, NEW s \in Seq(S), NEW t \in Seq(S), Len(s) >= 3
  PROVE  s \o t \in Seq(S) /\ Len(s \o t) >= 3 /\ \A i \in 1..3 : (s \o t)[i] = s[i]
<1>1. PICK k \in Nat, l \in Nat : k = Len(s) /\ l = Len(t)
  OBVIOUS
<1>2. /\ s \o t \in Seq(S) /\ Len(s \o t) = k + l
      /\ \A i \in 1..k + l : (s \o t)[i] = IF i <= k THEN s[i] ELSE t[i - k]
  BY <1>1, ConcatProperties
<1>3. k + l >= 3 /\ \A i \in 1..3 : i \in 1..k + l /\ i <= k
  BY <1>1
<1> QED
  BY <1>2, <1>3

\* What a run says step by step.
LEMMA RunsGoOn ==
  ASSUME NEW program, NEW arch, NEW nr, NEW n \in Nat, NEW t, RunsFor(t, n, program, arch, nr)
  PROVE  /\ t[0] = Registers(1, "none")
         /\ \A k \in 1..n : t[k] = StepFrom(t[k - 1], program, arch, nr)
<1>1. \A k \in 0..n : t[k] = IF k = 0 THEN Registers(1, "none")
                             ELSE StepFrom(t[k - 1], program, arch, nr)
  <2> DEFINE F(k) == IF k = 0 THEN Registers(1, "none") ELSE StepFrom(t[k - 1], program, arch, nr)
  <2>1. t = [k \in 0..n |-> F(k)]
    BY DEF RunsFor
  <2> HIDE DEF F
  <2>2. \A k \in 0..n : t[k] = F(k)
    BY <2>1
  <2> QED
    BY <2>2 DEF F
<1>2. 0 \in 0..n /\ \A k \in 1..n : k \in 0..n /\ k # 0
  OBVIOUS
<1> QED
  BY <1>1, <1>2

\* There is a run of every length: a shortest one that is missing would be the run
\* before it with a step more.
LEMMA RunExists ==
  ASSUME NEW program, NEW arch, NEW nr, NEW n \in Nat
  PROVE  \E t : RunsFor(t, n, program, arch, nr)
<1> DEFINE Missed == {k \in Nat : ~\E t : RunsFor(t, k, program, arch, nr)}
<1> SUFFICES ASSUME Missed # {} PROVE FALSE
  OBVIOUS
<1>1. PICK m \in Missed : \A k \in Missed : m <= k
  <2>1. Missed \subseteq Nat
    OBVIOUS
  <2> HIDE DEF Missed
  <2> QED
    BY <2>1, LeastNumber
<1>2. CASE m = 0
  <2>1. PICK t : t = [k \in 0..0 |-> Registers(1, "none")]
    OBVIOUS
  <2> DEFINE F(k) == IF k = 0 THEN Registers(1, "none") ELSE StepFrom(t[k - 1], program, arch, nr)
  <2>4. \A k \in 0..0 : F(k) = Registers(1, "none")
    OBVIOUS
  <2> HIDE DEF F
  <2>5. t = [k \in 0..0 |-> F(k)]
    BY <2>1, <2>4
  <2>2. t = [k \in 0..0 |-> IF k = 0 THEN Registers(1, "none")
                             ELSE StepFrom(t[k - 1], program, arch, nr)]
    BY <2>5 DEF F
  <2>3. RunsFor(t, 0, program, arch, nr)
    BY <2>2 DEF RunsFor
  <2> QED
    BY <1>1, <1>2, <2>3
<1>3. CASE m # 0
  <2>1. m \in Nat /\ m - 1 \in Nat /\ m - 1 \notin Missed
    BY <1>1, <1>3
  <2>2. PICK t : RunsFor(t, m - 1, program, arch, nr)
    BY <2>1
  <2>t. /\ t[0] = Registers(1, "none")
        /\ \A k \in 1..(m - 1) : t[k] = StepFrom(t[k - 1], program, arch, nr)
    <3>1. PICK l \in Nat : l = m - 1
      BY <2>1
    <3>2. RunsFor(t, l, program, arch, nr)
      BY <2>2, <3>1
    <3>3. /\ t[0] = Registers(1, "none")
          /\ \A k \in 1..l : t[k] = StepFrom(t[k - 1], program, arch, nr)
      BY <3>2, RunsGoOn
    <3> QED
      BY <3>1, <3>3
  <2>3. PICK u : u = [k \in 0..m |-> IF k < m THEN t[k]
                                     ELSE StepFrom(t[m - 1], program, arch, nr)]
    OBVIOUS
  <2>4. \A k \in 0..m : u[k] = IF k = 0 THEN Registers(1, "none")
                               ELSE StepFrom(u[k - 1], program, arch, nr)
    <3> TAKE k \in 0..m
    <3>1. \A j \in 0..(m - 1) : u[j] = t[j]
      BY <2>1, <2>3
    <3>2. CASE k = 0
      <4>1. u[0] = t[0] /\ t[0] = Registers(1, "none")
        BY <2>1, <2>t, <3>1
      <4> QED
        BY <3>2, <4>1
    <3>3. CASE k # 0 /\ k < m
      <4>1. u[k] = t[k] /\ u[k - 1] = t[k - 1] /\ k \in 0..(m - 1)
        BY <2>1, <3>1, <3>3
      <4>2. t[k] = StepFrom(t[k - 1], program, arch, nr)
        BY <2>1, <2>t, <3>3, <4>1
      <4> QED
        BY <3>3, <4>1, <4>2
    <3>4. CASE k = m
      <4>1. u[m] = StepFrom(t[m - 1], program, arch, nr) /\ u[m - 1] = t[m - 1]
        BY <2>1, <2>3
      <4> QED
        BY <1>3, <3>4, <4>1
    <3>5. k = 0 \/ (k # 0 /\ k < m) \/ k = m
      BY <2>1
    <3> QED
      BY <3>2, <3>3, <3>4, <3>5
  <2>5. RunsFor(u, m, program, arch, nr)
    BY <2>3, <2>4 DEF RunsFor
  <2> QED
    BY <1>1, <2>5
<1> QED
  BY <1>2, <1>3

\* On x86_64 a program that begins with the check of the architecture answers "kill"
\* to every call.
LEMMA CheckKills ==
  ASSUME NEW program, NEW nr, Len(program) \in Nat, Len(program) >= 3,
         program[1] = Load("arch"), program[2] = JumpIf("x86_64", 0, 1),
         program[3] = Answer("kill")
  PROVE  Verdict(program, "x86_64", nr) = "kill"
<1> DEFINE n == Len(program)
           at == Run(program, "x86_64", nr)
           Next(s) == StepFrom(s, program, "x86_64", nr)
<1>1. RunsFor(at, n, program, "x86_64", nr)
  <2>1. at = CHOOSE t : RunsFor(t, n, program, "x86_64", nr)
    BY DEF Run, RunsFor
  <2> HIDE DEF at
  <2> QED
    BY <2>1, RunExists
<1> HIDE DEF at
<1>2. at[0] = Registers(1, "none") /\ \A k \in 1..n : at[k] = Next(at[k - 1])
  <2>1. n \in Nat
    OBVIOUS
  <2> HIDE DEF n
  <2> QED
    BY <1>1, <2>1, RunsGoOn
<1>3. at[1] = Next(at[0]) /\ at[2] = Next(at[1])
  <2>1. 1 \in 1..n /\ 2 \in 1..n /\ 1 - 1 = 0 /\ 2 - 1 = 1
    OBVIOUS
  <2> QED
    BY <1>2, <2>1
<1>4. Next(Registers(1, "none")) = Registers(2, "x86_64")
  <2>1. program[1].op = "load" /\ program[1].k = "arch"
    BY DEF Load
  <2>2. PICK r : r = Registers(1, "none")
    OBVIOUS
  <2>3. r.pc = 1
    BY <2>2 DEF Registers
  <2>4. StepFrom(r, program, "x86_64", nr) = Registers(2, "x86_64")
    BY <2>1, <2>3 DEF StepFrom
  <2> QED
    BY <2>2, <2>4
<1>5. Next(Registers(2, "x86_64")) = Registers(3, "x86_64")
  BY DEF StepFrom, Registers, JumpIf
<1>6. Next(Registers(3, "x86_64")) = Registers(3, "x86_64")
  BY DEF StepFrom, Registers, Answer
<1> HIDE DEF Next
<1>7. at[2] = Registers(3, "x86_64")
  BY <1>2, <1>3, <1>4, <1>5
<1> DEFINE Gone == {k \in Nat : k \in 2..n /\ at[k] # Registers(3, "x86_64")}
<1>8. Gone = {}
  <2> SUFFICES ASSUME Gone # {} PROVE FALSE
    OBVIOUS
  <2>1. PICK m \in Gone : \A k \in Gone : m <= k
    <3>1. Gone \subseteq Nat
      OBVIOUS
    <3> HIDE DEF Gone
    <3> QED
      BY <3>1, LeastNumber
  <2>2. m \in 3..n
    BY <1>7, <2>1
  <2>3. m - 1 \in Nat /\ m - 1 \in 2..n /\ ~(m <= m - 1) /\ m \in 1..n
    BY <2>2
  <2>4. at[m - 1] = Registers(3, "x86_64")
    BY <2>1, <2>3
  <2> QED
    BY <1>2, <1>6, <2>1, <2>3, <2>4
<1>9. at[n] = Registers(3, "x86_64")
  BY <1>8
<1>10. program[at[n].pc].k = "kill"
  BY <1>9 DEF Registers, Answer
<1> QED
  BY <1>10 DEF Verdict, at

LEMMA BuildBegins ==
  ASSUME NEW allowed, NEW default, Len(allowed) \in Nat
  PROVE  LET program == Build(allowed, default)
         IN /\ Len(program) \in Nat /\ Len(program) >= 3
            /\ program[1] = Load("arch") /\ program[2] = JumpIf("x86_64", 0, 1)
            /\ program[3] = Answer("kill")
<1> DEFINE checks == [i \in 1..(2 * Len(allowed) - 1) |->
              IF i % 2 = 1 THEN JumpIf(allowed[(i + 1) \div 2], 1, 0) ELSE Jump(2)]
           S == Range(checks)
                  \cup {Load("arch"), JumpIf("x86_64", 0, 1), Answer("kill"), Load("nr"),
                        Answer("allow"), Answer(default)}
<1>1. checks \in Seq(S)
  <2>1. PICK m \in Nat : 1..(2 * Len(allowed) - 1) = 1..m
    <3>1. CASE Len(allowed) = 0
      <4>1. 1..(2 * Len(allowed) - 1) = 1..0
        BY <3>1
      <4> QED
        BY <4>1
    <3>2. CASE Len(allowed) # 0
      BY <3>2
    <3> QED
      BY <3>1, <3>2
  <2>2. DOMAIN checks = 1..m
    BY <2>1
  <2>3. checks \in [1..m -> S]
    BY <2>1, <2>2 DEF Range
  <2> HIDE DEF checks, S
  <2> QED
    BY <2>3, SeqDef
<1>2. PICK a, b, c : /\ a = <<Load("arch"), JumpIf("x86_64", 0, 1), Answer("kill")>>
                     /\ b = <<Load("nr")>> /\ c = <<Answer("allow"), Answer(default)>>
  OBVIOUS
<1>3. a \in Seq(S) /\ b \in Seq(S) /\ c \in Seq(S) /\ Len(a) = 3
      /\ a[1] = Load("arch") /\ a[2] = JumpIf("x86_64", 0, 1) /\ a[3] = Answer("kill")
  BY <1>2
<1>4. Build(allowed, default) = ((a \o b) \o checks) \o c
  BY <1>2 DEF Build, ArchCheck
<1> HIDE DEF S, checks
<1>5. a \o b \in Seq(S) /\ Len(a \o b) >= 3 /\ \A i \in 1..3 : (a \o b)[i] = a[i]
  <2>1. a \in Seq(S) /\ b \in Seq(S) /\ Len(a) >= 3
    BY <1>3
  <2> QED
    BY <2>1, BeginningStays
<1>6. PICK d : d = a \o b
  OBVIOUS
<1>7. d \o checks \in Seq(S) /\ Len(d \o checks) >= 3 /\ \A i \in 1..3 : (d \o checks)[i] = d[i]
  BY <1>1, <1>5, <1>6, BeginningStays
<1>8. PICK e : e = d \o checks
  OBVIOUS
<1>9. e \o c \in Seq(S) /\ Len(e \o c) >= 3 /\ \A i \in 1..3 : (e \o c)[i] = e[i]
  BY <1>3, <1>7, <1>8, BeginningStays
<1> QED
  BY <1>3, <1>4, <1>5, <1>6, <1>7, <1>8, <1>9

FilterRecords == [profile : Profiles \cup {"none"}, real : BOOLEAN, violations : 0..MaxLogged]

\* On x86_64 every program in the kernel answers "kill" to every call, so that no call
\* returned with one loaded; and no more filters are real than programs were loaded.
SeccompInv ==
  /\ machine \in {"x86_64", "aarch64", "none"} /\ alive \in BOOLEAN /\ returned \in BOOLEAN
  /\ filters \in [FilterOwners -> FilterRecords]
  /\ opStats \subseteq FilterOwners /\ \A o \in opStats : HasFilter(o)
  /\ kernel \in Seq(Range(kernel)) /\ Len(kernel) <= MaxLoaded
  /\ machine = "x86_64" =>
       ~returned /\ \A i \in DOMAIN kernel : \A nr \in Calls : kernel[i][nr] = "kill"
  /\ machine = "none" => kernel = <<>> /\ RealFilters = {}
  /\ IsFiniteSet(RealFilters) /\ Cardinality(RealFilters) <= Len(kernel)

\* A filter more, with a program more.
LEMMA OneFilterMore ==
  ASSUME NEW R, IsFiniteSet(R), NEW n \in Nat, Cardinality(R) <= n, NEW o, NEW Q,
         Q \subseteq R \cup {o}
  PROVE  /\ IsFiniteSet(Q) /\ Cardinality(Q) <= n + 1
         /\ Q \subseteq R => Cardinality(Q) <= n
<1>1. /\ IsFiniteSet(R \cup {o})
      /\ Cardinality(R \cup {o}) \in {Cardinality(R), Cardinality(R) + 1}
      /\ Cardinality(R) \in Nat
  BY FS_AddElement, FS_CardinalityType
<1>2. IsFiniteSet(Q) /\ Cardinality(Q) <= Cardinality(R \cup {o}) /\ Cardinality(Q) \in Nat
  BY <1>1, FS_Subset, FS_CardinalityType
<1>3. Q \subseteq R => Cardinality(Q) <= Cardinality(R)
  BY FS_Subset
<1> QED
  BY <1>1, <1>2, <1>3

\* On x86_64 a call with a program loaded ends the thread.
LEMMA CallsAreKilled ==
  ASSUME SeccompInv, machine = "x86_64", kernel # <<>>, NEW nr \in Calls
  PROVE  Judged(nr) = "kill"
<1> DEFINE answers == {p[nr] : p \in Range(kernel)} \cup {"allow"}
           Strictest(i) == /\ Strictness[i] \in answers
                           /\ \A j \in 1..(i - 1) : Strictness[j] \notin answers
<1>1. "kill" \in answers
  <2>1. 1 \in DOMAIN kernel
    BY DEF SeccompInv
  <2>2. kernel[1][nr] = "kill" /\ kernel[1] \in Range(kernel)
    BY <2>1 DEF SeccompInv, Range
  <2> QED
    BY <2>2
<1>2. Strictness[1] = "kill" /\ DOMAIN Strictness = 1..4
  BY DEF Strictness
<1> HIDE DEF answers
<1>3. \A i \in 1..4 : Strictest(i) <=> i = 1
  BY <1>1, <1>2
<1>4. Judged(nr) = Strictness[CHOOSE i \in DOMAIN Strictness : Strictest(i)]
  BY DEF Judged, answers
<1> HIDE DEF Strictest
<1>5. (CHOOSE i \in DOMAIN Strictness : Strictest(i)) = 1
  BY <1>2, <1>3
<1> QED
  BY <1>2, <1>4, <1>5

LEMMA InitializeKeeps ==
  ASSUME SeccompInv, NEW o \in FilterOwners, NEW p \in Profiles, Initialize(o, p),
         UNCHANGED <<machine, returned>>, alive' \in BOOLEAN, opStats' \subseteq opStats \cup {o}
  PROVE  SeccompInv'
<1>1. PICK real \in BOOLEAN : filters' = [filters EXCEPT ![o] = NewFilter(p, real)]
  BY DEF Initialize
<1>2. PICK f : f = NewFilter(p, real)
  OBVIOUS
<1>3. f \in FilterRecords /\ f.profile = p /\ f.real = real
  BY <1>2, SeccompAssumption DEF NewFilter, FilterRecords
<1>4. filters' = [filters EXCEPT ![o] = f] /\ filters \in [FilterOwners -> FilterRecords]
  BY <1>1, <1>2 DEF SeccompInv
<1>5. filters' \in [FilterOwners -> FilterRecords]
  BY <1>3, <1>4
<1>6. \A q \in opStats' : HasFilter(q)'
  <2>1. p # "none"
    BY DEF Profiles
  <2> QED
    BY <1>3, <1>4, <2>1 DEF SeccompInv, HasFilter
<1>7. RealFilters' \subseteq RealFilters \cup {o}
  BY <1>4 DEF RealFilters
<1>8. CASE machine # "none" /\ Len(kernel) < MaxLoaded
           /\ \E allowed \in SetToSeqs(AllowedCalls[p]) :
                kernel' = Append(kernel, Answers(Build(allowed, DefaultAction(p))))
  <2>1. PICK allowed \in SetToSeqs(AllowedCalls[p]) :
          kernel' = Append(kernel, Answers(Build(allowed, DefaultAction(p))))
    BY <1>8
  <2>2. Len(allowed) \in Nat
    <3>1. PICK n : n = Cardinality(AllowedCalls[p])
      OBVIOUS
    <3>2. DOMAIN allowed = 1..n
      BY <2>1, <3>1 DEF SetToSeqs
    <3>3. AllowedCalls[p] \in SUBSET Calls
      BY DEF AllowedCalls, Calls, Profiles
    <3>4. IsFiniteSet(Calls)
      <4>1. Calls = {"basic"} \cup {"network"} \cup {"files"} \cup {"mount"}
                      \cup {"process"} \cup {"other"}
        BY DEF Calls
      <4> QED
        BY <4>1, FS_Singleton, FS_Union
    <3>5. n \in Nat
      BY <3>1, <3>3, <3>4, FS_Subset, FS_CardinalityType
    <3>6. allowed \in [1..n -> AllowedCalls[p]]
      BY <2>1, <3>1 DEF SetToSeqs
    <3>7. allowed \in Seq(AllowedCalls[p])
      BY <3>5, <3>6
    <3> QED
      BY <3>7
  <2>3. PICK a : a = Answers(Build(allowed, DefaultAction(p)))
    OBVIOUS
  <2>4. machine = "x86_64" => \A nr \in Calls : a[nr] = "kill"
    BY <2>2, <2>3, BuildBegins, CheckKills DEF Answers
  <2>5. /\ kernel' = Append(kernel, a) /\ kernel \in Seq(Range(kernel) \cup {a})
        /\ Len(kernel) <= MaxLoaded
    <3>1. kernel \in Seq(Range(kernel))
      BY DEF SeccompInv
    <3> QED
      BY <2>1, <2>3, <3>1 DEF SeccompInv
  <2>6. /\ Len(kernel') = Len(kernel) + 1 /\ Len(kernel) \in Nat
        /\ DOMAIN kernel' = 1..(Len(kernel) + 1) /\ DOMAIN kernel = 1..Len(kernel)
        /\ \A i \in DOMAIN kernel' : kernel'[i] = IF i \in DOMAIN kernel THEN kernel[i] ELSE a
    BY <2>5
  <2>7. kernel' \in Seq(Range(kernel'))
    <3>1. kernel' \in Seq(Range(kernel) \cup {a})
      BY <2>5
    <3> QED
      BY <3>1, OwnElements
  <2>8. machine = "x86_64" => \A i \in DOMAIN kernel' : \A nr \in Calls : kernel'[i][nr] = "kill"
    BY <2>4, <2>6 DEF SeccompInv
  <2>9. IsFiniteSet(RealFilters') /\ Cardinality(RealFilters') <= Len(kernel) + 1
    <3>1. IsFiniteSet(RealFilters) /\ Cardinality(RealFilters) <= Len(kernel)
      BY DEF SeccompInv
    <3> QED
      BY <1>7, <2>6, <3>1, OneFilterMore
  <2>10. Len(kernel) + 1 <= MaxLoaded
    BY <1>8, <2>6, SeccompAssumption
  <2> QED
    BY <1>5, <1>6, <1>8, <2>6, <2>7, <2>8, <2>9, <2>10 DEF SeccompInv
<1>9. CASE filters' = [filters EXCEPT ![o] = NewFilter(p, FALSE)] /\ kernel' = kernel
  <2>1. RealFilters' \subseteq RealFilters
    <3>1. NewFilter(p, FALSE).real = FALSE
      BY DEF NewFilter
    <3>2. \A q \in FilterOwners : filters'[q].real => filters[q].real
      BY <1>4, <1>9, <3>1
    <3> QED
      BY <3>2 DEF RealFilters
  <2>2. Len(kernel) \in Nat
    BY DEF SeccompInv
  <2>3. IsFiniteSet(RealFilters') /\ Cardinality(RealFilters') <= Len(kernel)
    BY <2>1, <2>2, OneFilterMore DEF SeccompInv
  <2> QED
    BY <1>5, <1>6, <1>9, <2>1, <2>3 DEF SeccompInv
<1> QED
  BY <1>8, <1>9 DEF Initialize

\* A step that loads no program and makes no filter real keeps the invariant.
LEMMA SameKernel ==
  ASSUME SeccompInv, UNCHANGED <<machine, kernel, returned>>, alive' \in BOOLEAN,
         filters' \in [FilterOwners -> FilterRecords], opStats' \subseteq FilterOwners,
         \A o \in opStats' : HasFilter(o)',
         \A o \in FilterOwners : filters'[o].real => filters[o].real
  PROVE  SeccompInv'
<1>1. RealFilters' \subseteq RealFilters
  BY DEF RealFilters
<1>2. Len(kernel) \in Nat
  BY DEF SeccompInv
<1>3. IsFiniteSet(RealFilters') /\ Cardinality(RealFilters') <= Len(kernel)
  <2>1. IsFiniteSet(RealFilters) /\ Cardinality(RealFilters) <= Len(kernel)
    BY DEF SeccompInv
  <2> QED
    BY <1>1, <1>2, <2>1, OneFilterMore
<1> QED
  BY <1>1, <1>3 DEF SeccompInv

LEMMA SeccompStep == SeccompInv /\ [SeccompNext]_SeccompVars => SeccompInv'
<1> SUFFICES ASSUME SeccompInv, [SeccompNext]_SeccompVars PROVE SeccompInv'
  OBVIOUS
<1>o. /\ Operations \subseteq FilterOwners /\ "daemon_main" \in FilterOwners
      /\ Executor \in FilterOwners /\ Asked \subseteq Profiles
      /\ {"Minimal", "Daemon"} \subseteq Profiles
  BY SeccompAssumption DEF FilterOwners, Profiles
<1>t. /\ alive \in BOOLEAN /\ filters \in [FilterOwners -> FilterRecords]
      /\ opStats \subseteq FilterOwners /\ \A o \in opStats : HasFilter(o)
  BY DEF SeccompInv
<1>1. ASSUME NEW o \in FilterOwners, NEW p \in Profiles, InitializeOperation(o, p)
      PROVE  SeccompInv'
  BY <1>1, <1>t, InitializeKeeps DEF InitializeOperation
<1>2. ASSUME NEW strict \in BOOLEAN, ApplyDaemonSeccomp(strict) PROVE SeccompInv'
  BY <1>1, <1>2, <1>o DEF ApplyDaemonSeccomp
<1>3. ASSUME NEW p \in Asked, ExecuteInSandbox(p) PROVE SeccompInv'
  BY <1>3, <1>o, <1>t, InitializeKeeps DEF ExecuteInSandbox
<1>4. ASSUME NEW o \in FilterOwners, RemoveOperation(o) PROVE SeccompInv'
  <2>1. PICK f : f = NoFilter
    OBVIOUS
  <2>2. f \in FilterRecords /\ ~f.real
    BY <2>1, SeccompAssumption DEF NoFilter, FilterRecords
  <2>3. filters' = [filters EXCEPT ![o] = f] /\ opStats' = opStats \ {o}
        /\ UNCHANGED <<machine, kernel, alive, returned>>
    BY <1>4, <2>1 DEF RemoveOperation
  <2>4. \A q \in opStats' : HasFilter(q)'
    BY <1>t, <2>3 DEF HasFilter
  <2> QED
    BY <1>t, <2>2, <2>3, <2>4, SameKernel
<1>5. ASSUME NEW o \in FilterOwners, LogViolation(o) PROVE SeccompInv'
  <2>1. PICK f : f = [filters[o] EXCEPT !.violations = @ + 1]
    OBVIOUS
  <2>2. filters[o] \in FilterRecords /\ filters[o].violations < MaxLogged
    BY <1>5, <1>t DEF LogViolation
  <2>3. f \in FilterRecords /\ f.real = filters[o].real /\ f.profile = filters[o].profile
    BY <2>1, <2>2, SeccompAssumption DEF FilterRecords
  <2>4. filters' = [filters EXCEPT ![o] = f] /\ opStats' = opStats
        /\ UNCHANGED <<machine, kernel, alive, returned>>
    BY <1>5, <2>1 DEF LogViolation
  <2>5. \A q \in opStats' : HasFilter(q)'
    BY <1>t, <2>3, <2>4 DEF HasFilter
  <2> QED
    BY <1>t, <2>3, <2>4, <2>5, SameKernel
<1>6. ASSUME ResetAllStats PROVE SeccompInv'
  <2>1. \A q \in FilterOwners : filters[q] \in FilterRecords
    BY <1>t
  <2>2. \A q \in FilterOwners : /\ [filters[q] EXCEPT !.violations = 0] \in FilterRecords
                                /\ [filters[q] EXCEPT !.violations = 0].real = filters[q].real
    BY <2>1, SeccompAssumption DEF FilterRecords
  <2>3. /\ filters' = [q \in FilterOwners |-> IF q = Executor THEN filters[q]
                                  ELSE [filters[q] EXCEPT !.violations = 0]]
        /\ opStats' = {} /\ UNCHANGED <<machine, kernel, alive, returned>>
    BY <1>6 DEF ResetAllStats
  <2>4. /\ filters' \in [FilterOwners -> FilterRecords]
        /\ \A q \in FilterOwners : filters'[q].real = filters[q].real
    BY <2>1, <2>2, <2>3
  <2> QED
    BY <1>t, <2>3, <2>4, SameKernel
<1>7. ASSUME NEW nr \in Calls, MakeCall(nr) PROVE SeccompInv'
  <2>1. /\ alive' = (Judged(nr) # "kill") /\ UNCHANGED <<machine, kernel, filters, opStats>>
        /\ returned' = (returned \/ (kernel # <<>> /\ alive'))
    BY <1>7 DEF MakeCall
  <2>2. alive' \in BOOLEAN /\ returned' \in BOOLEAN
    BY <2>1
  <2>3. machine = "x86_64" => ~returned'
    <3> SUFFICES ASSUME machine = "x86_64" PROVE ~returned'
      OBVIOUS
    <3>1. ~returned
      BY DEF SeccompInv
    <3>2. kernel # <<>> => ~alive'
      BY <2>1, CallsAreKilled
    <3> QED
      BY <2>1, <3>1, <3>2
  <2>4. RealFilters' = RealFilters /\ \A q : HasFilter(q)' = HasFilter(q)
    BY <2>1 DEF RealFilters, HasFilter
  <2> QED
    BY <2>1, <2>2, <2>3, <2>4 DEF SeccompInv
<1>8. CASE UNCHANGED SeccompVars
  <2>1. RealFilters' = RealFilters /\ \A q : HasFilter(q)' = HasFilter(q)
    BY <1>8 DEF RealFilters, HasFilter, SeccompVars
  <2> QED
    BY <1>8, <2>1 DEF SeccompInv, SeccompVars
<1> QED
  <2>1. ASSUME NEW o \in Operations, NEW p \in Asked, InitializeOperation(o, p)
        PROVE  SeccompInv'
    BY <1>1, <1>o, <2>1
  <2> QED
    BY <1>2, <1>3, <1>4, <1>5, <1>6, <1>7, <1>8, <2>1 DEF SeccompNext

LEMMA SeccompHolds == SeccompSpec => []SeccompInv
<1>1. SeccompInit => SeccompInv
  <2> SUFFICES ASSUME SeccompInit PROVE SeccompInv
    OBVIOUS
  <2>1. NoFilter \in FilterRecords /\ ~NoFilter.real
    BY SeccompAssumption DEF NoFilter, FilterRecords
  <2>2. filters \in [FilterOwners -> FilterRecords] /\ RealFilters = {}
    BY <2>1 DEF SeccompInit, RealFilters
  <2>3. kernel \in Seq(Range(kernel)) /\ Len(kernel) = 0 /\ DOMAIN kernel = {}
    BY DEF SeccompInit
  <2>4. IsFiniteSet(RealFilters) /\ Cardinality(RealFilters) = 0
    BY <2>2, FS_EmptySet
  <2> QED
    <3>1. /\ machine \in {"x86_64", "aarch64", "none"} /\ alive \in BOOLEAN
          /\ returned \in BOOLEAN /\ ~returned /\ opStats = {} /\ kernel = <<>>
      BY DEF SeccompInit
    <3>2. 0 <= MaxLoaded
      BY SeccompAssumption
    <3> QED
      BY <2>2, <2>3, <2>4, <3>1, <3>2 DEF SeccompInv
<1> QED
  BY <1>1, SeccompStep, PTL DEF SeccompSpec

\* Whatever was removed, replaced or reset: each filter counted as real has a program
\* of its own in the kernel, each entry of the statistics is of a filter that stands,
\* and on x86_64 no call returns once a program, of any profile, is loaded.
THEOREM FiltersStayLoaded == SeccompSpec => []FiltersStand
<1>1. SeccompInv => FiltersStand
  BY DEF SeccompInv, FiltersStand
<1> QED
  BY <1>1, SeccompHolds, PTL

-----------------------------------------------------------------------------
(* PathSecurity: the walk of a call over links that do not change meanwhile.     *)

CheckRecords ==
  [at : {"again", "judge", "look", "read", "permissions"} \cup Verdicts,
   path : Nodes, write : BOOLEAN, changes : Nat, depth : 0..MaxDepth,
   walked : BOOLEAN, abs : Nodes, cur : Nodes]

\* While nothing changed the walk is on the links of the path asked for; if these
\* end at a file, there already.
WalkKept ==
  /\ check.abs = Followed(check.path) /\ check.cur \in LinksFrom(check.path)
  /\ Resolves(check.path) => /\ check.cur = check.abs
                             /\ check.at \notin {"again", "read", "links"}
  /\ check.at \in {"look", "read", "permissions", "denied", "safe"} =>
       /\ check.abs \notin DangerousNodes
       /\ check.walked => check.abs \in InsideNodes
  /\ check.at \in {"look", "read"} => check.walked
  /\ check.at \in {"permissions", "denied", "safe"} /\ check.walked => Resolves(check.path)

PathInv ==
  /\ fs \in [Nodes -> Nodes \cup {Plain, Missing}]
  /\ blocked \subseteq Nodes /\ known \in BOOLEAN
  /\ \/ check = NoCheck
     \/ check \in CheckRecords /\ (check.changes = 0 => WalkKept)

LEMMA LinksLeadOn ==
  ASSUME NEW n \in Nodes
  PROVE  /\ n \in LinksFrom(n)
         /\ \A m \in LinksFrom(n) : m \in Nodes /\ (fs[m] \in Nodes => fs[m] \in LinksFrom(n))
  BY DEF LinksFrom

LEMMA FollowedIsPath ==
  ASSUME NEW n \in Nodes
  PROVE  /\ Followed(n) \in LinksFrom(n) /\ Followed(n) \in Nodes
         /\ Resolves(n) <=> fs[Followed(n)] = Plain
         /\ ~Resolves(n) => Followed(n) = n
<1>1. n \in LinksFrom(n) /\ \A m \in LinksFrom(n) : m \in Nodes
  BY LinksLeadOn
<1>2. CASE Resolves(n)
  <2>1. Followed(n) \in LinksFrom(n) /\ fs[Followed(n)] = Plain
    BY <1>2 DEF Resolves, Followed
  <2> QED
    BY <1>1, <1>2, <2>1
<1>3. CASE ~Resolves(n)
  BY <1>1, <1>3 DEF Resolves, Followed
<1> QED
  BY <1>2, <1>3

\* What an unchanged file system says of a path stays.
LEMMA SameLinks ==
  ASSUME fs' = fs
  PROVE  \A n : /\ LinksFrom(n)' = LinksFrom(n) /\ Resolves(n)' = Resolves(n)
                /\ Followed(n)' = Followed(n)
<1>1. \A n : LinksFrom(n)' = LinksFrom(n)
  BY DEF LinksFrom
<1>2. \A n : Resolves(n)' = Resolves(n)
  BY <1>1 DEF Resolves
<1>3. ASSUME NEW n PROVE Followed(n)' = Followed(n)
  <2>1. LinksFrom(n)' = LinksFrom(n) /\ Resolves(n)' = Resolves(n)
    BY <1>1, <1>2
  <2> QED
    BY <2>1 DEF Followed
<1> QED
  BY <1>1, <1>2, <1>3

LEMMA PathStep == PathInv /\ [PathNext]_PathVars => PathInv'
<1> SUFFICES ASSUME PathInv, [PathNext]_PathVars PROVE PathInv'
  OBVIOUS
<1>f. /\ NoCheck.at = "none"
      /\ \A c \in CheckRecords : c.at # "none"
  BY DEF NoCheck, CheckRecords, Verdicts
<1>1. ASSUME NEW n \in Nodes, NEW what \in Nodes \cup {Plain, Missing}, ChangeNode(n, what)
      PROVE  PathInv'
  <2>1. check \in CheckRecords
    BY <1>1, <1>f DEF ChangeNode, PathInv
  <2>2. check' \in CheckRecords /\ check'.changes # 0
    BY <1>1, <2>1 DEF ChangeNode, CheckRecords
  <2> QED
    BY <1>1, <2>2 DEF ChangeNode, PathInv
<1>2. ASSUME ShareComesOrGoes \/ \E n \in Nodes : BlockPath(n) PROVE PathInv'
  <2>1. fs' = fs /\ check' = check
    BY <1>2 DEF BlockPath, ShareComesOrGoes
  <2>2. WalkKept => WalkKept'
    BY <2>1, SameLinks DEF WalkKept
  <2> QED
    BY <1>2, <2>1, <2>2 DEF BlockPath, ShareComesOrGoes, PathInv
<1>3. ASSUME NEW n \in Nodes, NEW write \in BOOLEAN, BeginCheck(n, write) PROVE PathInv'
  <2>1. PICK c : c = [at |-> IF Resolves(n) THEN "judge" ELSE "again", path |-> n,
                      write |-> write, changes |-> 0, depth |-> 0, walked |-> FALSE,
                      abs |-> Followed(n), cur |-> Followed(n)]
    OBVIOUS
  <2>2. check' = c /\ fs' = fs /\ blocked' = blocked /\ known' = known
    BY <1>3, <2>1 DEF BeginCheck
  <2>3. c \in CheckRecords
    BY <2>1, FollowedIsPath, PathAssumption DEF CheckRecords
  <2>4. /\ c.path = n /\ c.abs = Followed(n) /\ c.cur = Followed(n)
        /\ c.at = IF Resolves(n) THEN "judge" ELSE "again"
    BY <2>1
  <2>5. WalkKept'
    BY <2>2, <2>4, FollowedIsPath, SameLinks DEF WalkKept
  <2> QED
    BY <2>2, <2>3, <2>5 DEF PathInv
<1>4. ASSUME ResolveAgain PROVE PathInv'
  <2>1. check \in CheckRecords /\ check.at = "again"
    BY <1>4, <1>f DEF ResolveAgain, PathInv
  <2>2. /\ check' = [check EXCEPT !.at = "judge", !.abs = Followed(check.path),
                                  !.cur = Followed(check.path)]
        /\ fs' = fs /\ blocked' = blocked /\ known' = known
    BY <1>4 DEF ResolveAgain
  <2>3. check.path \in Nodes /\ Followed(check.path) \in Nodes
    BY <2>1, FollowedIsPath DEF CheckRecords
  <2>4. /\ check' \in CheckRecords /\ check'.at = "judge" /\ check'.path = check.path
        /\ check'.abs = Followed(check.path) /\ check'.cur = Followed(check.path)
    BY <2>1, <2>2, <2>3 DEF CheckRecords
  <2>5. WalkKept'
    BY <2>2, <2>3, <2>4, FollowedIsPath, SameLinks DEF WalkKept
  <2> QED
    BY <2>2, <2>4, <2>5 DEF PathInv
<1>5. ASSUME JudgePath PROVE PathInv'
  <2>1. check \in CheckRecords /\ check.at = "judge"
    BY <1>5, <1>f DEF JudgePath, PathInv
  <2>2. PICK at : /\ check' = [check EXCEPT !.walked = known, !.at = at]
                  /\ at = IF check.abs \in blocked \cup DangerousNodes THEN "blocked"
                          ELSE IF known /\ check.abs \notin InsideNodes THEN "outside"
                          ELSE IF known THEN "look" ELSE "permissions"
    BY <1>5 DEF JudgePath
  <2>3. fs' = fs /\ blocked' = blocked /\ known' = known
    BY <1>5 DEF JudgePath
  <2>4. /\ check' \in CheckRecords /\ check'.at = at /\ check'.walked = known
        /\ check'.path = check.path /\ check'.abs = check.abs /\ check'.cur = check.cur
        /\ check'.changes = check.changes
    BY <2>1, <2>2 DEF CheckRecords, Verdicts, PathInv
  <2>5. WalkKept => WalkKept'
    BY <2>1, <2>2, <2>3, <2>4, SameLinks DEF WalkKept
  <2> QED
    BY <2>1, <2>3, <2>4, <2>5, <1>f DEF PathInv
<1>6. ASSUME LookAtLink PROVE PathInv'
  <2>1. check \in CheckRecords /\ check.at = "look"
    BY <1>6, <1>f DEF LookAtLink, PathInv
  <2>2. fs' = fs /\ blocked' = blocked /\ known' = known
    BY <1>6 DEF LookAtLink
  <2>3. \/ fs[check.cur] = Plain /\ check' = [check EXCEPT !.at = "permissions"]
        \/ fs[check.cur] # Plain /\ check' = [check EXCEPT !.at = "links"]
        \/ /\ fs[check.cur] # Plain /\ check.depth # MaxDepth
           /\ check' = [check EXCEPT !.at = "read", !.depth = @ + 1]
    BY <1>6 DEF LookAtLink
  <2>4. /\ check' \in CheckRecords /\ check'.walked = check.walked
        /\ check'.path = check.path /\ check'.abs = check.abs /\ check'.cur = check.cur
        /\ check'.changes = check.changes
    <3>1. check.depth \in 0..MaxDepth
      BY <2>1 DEF CheckRecords
    <3>2. CASE check' = [check EXCEPT !.at = "permissions"]
      BY <2>1, <3>2 DEF CheckRecords
    <3>3. CASE check' = [check EXCEPT !.at = "links"]
      BY <2>1, <3>3 DEF CheckRecords, Verdicts
    <3>4. CASE /\ check.depth # MaxDepth
               /\ check' = [check EXCEPT !.at = "read", !.depth = @ + 1]
      <4>1. check.depth + 1 \in 0..MaxDepth
        BY <3>1, <3>4, PathAssumption
      <4> QED
        BY <2>1, <3>4, <4>1 DEF CheckRecords
    <3> QED
      BY <2>3, <3>2, <3>3, <3>4
  <2>5. \/ fs[check.cur] = Plain /\ check'.at = "permissions"
        \/ fs[check.cur] # Plain /\ check'.at \in {"links", "read"}
    BY <2>1, <2>3 DEF CheckRecords
  <2>6. check.path \in Nodes
    BY <2>1 DEF CheckRecords
  <2>7. WalkKept => WalkKept'
    <3> SUFFICES ASSUME WalkKept PROVE WalkKept'
      OBVIOUS
    <3>1. fs[check.cur] = Plain => Resolves(check.path)
      BY DEF WalkKept, Resolves
    <3>2. Resolves(check.path) => fs[check.cur] = Plain
      BY <2>6, FollowedIsPath DEF WalkKept
    <3> QED
      BY <2>1, <2>2, <2>4, <2>5, <3>1, <3>2, SameLinks DEF WalkKept
  <2> QED
    BY <2>1, <2>2, <2>4, <2>7, <1>f DEF PathInv
<1>7. ASSUME ReadLink PROVE PathInv'
  <2>1. check \in CheckRecords /\ check.at = "read"
    BY <1>7, <1>f DEF ReadLink, PathInv
  <2>2. fs' = fs /\ blocked' = blocked /\ known' = known
    BY <1>7 DEF ReadLink
  <2>3. \/ /\ fs[check.cur] \in Nodes
           /\ check' = [check EXCEPT !.at = "look", !.cur = fs[check.cur]]
        \/ check' = [check EXCEPT !.at = "links"]
    BY <1>7 DEF ReadLink
  <2>4. /\ check' \in CheckRecords /\ check'.walked = check.walked
        /\ check'.path = check.path /\ check'.abs = check.abs
        /\ check'.changes = check.changes
        /\ \/ check'.at = "look" /\ fs[check.cur] \in Nodes /\ check'.cur = fs[check.cur]
           \/ check'.at = "links" /\ check'.cur = check.cur
    BY <2>1, <2>3 DEF CheckRecords, Verdicts
  <2>5. WalkKept => WalkKept'
    <3> SUFFICES ASSUME WalkKept PROVE WalkKept'
      OBVIOUS
    <3>1. ~Resolves(check.path) /\ check.path \in Nodes
      BY <2>1 DEF WalkKept, CheckRecords
    <3>2. check'.cur \in LinksFrom(check.path)
      BY <2>4, <3>1, LinksLeadOn DEF WalkKept
    <3> QED
      BY <2>1, <2>2, <2>4, <3>1, <3>2, SameLinks DEF WalkKept
  <2> QED
    BY <2>1, <2>2, <2>4, <2>5, <1>f DEF PathInv
<1>8. ASSUME CheckPermissions PROVE PathInv'
  <2>1. check \in CheckRecords /\ check.at = "permissions"
    BY <1>8, <1>f DEF CheckPermissions, PathInv
  <2>2. fs' = fs /\ blocked' = blocked /\ known' = known
    BY <1>8 DEF CheckPermissions
  <2>3. PICK at \in {"denied", "safe"} : check' = [check EXCEPT !.at = at]
    BY <1>8 DEF CheckPermissions
  <2>4. /\ check' \in CheckRecords /\ check'.walked = check.walked /\ check'.at = at
        /\ check'.path = check.path /\ check'.abs = check.abs /\ check'.cur = check.cur
        /\ check'.changes = check.changes
    BY <2>1, <2>3 DEF CheckRecords, Verdicts
  <2>5. WalkKept => WalkKept'
    BY <2>1, <2>2, <2>4, SameLinks DEF WalkKept
  <2> QED
    BY <2>1, <2>2, <2>4, <2>5, <1>f DEF PathInv
<1>9. ASSUME EndCheck PROVE PathInv'
  BY <1>9 DEF EndCheck, PathInv
<1>10. CASE UNCHANGED PathVars
  <2>1. fs' = fs /\ check' = check /\ blocked' = blocked /\ known' = known
    BY <1>10 DEF PathVars
  <2>2. WalkKept => WalkKept'
    BY <2>1, SameLinks DEF WalkKept
  <2> QED
    BY <2>1, <2>2 DEF PathInv
<1> QED
  BY <1>1, <1>2, <1>3, <1>4, <1>5, <1>6, <1>7, <1>8, <1>9, <1>10 DEF PathNext

LEMMA PathHolds == PathSpec => []PathInv
<1>1. PathInit => PathInv
  BY DEF PathInit, PathInv
<1> QED
  BY <1>1, PathStep, PTL DEF PathSpec

\* However the file system changes between the steps of a call: a verdict on a path
\* while nothing changed is that of a single look, a path found safe in a known share
\* leads to a file inside it, and links that end at a file are never too many.
THEOREM VerdictsFollowFiles == PathSpec => []VerdictsStand
<1>1. PathInv => VerdictsStand
  <2> SUFFICES ASSUME PathInv PROVE VerdictsStand
    OBVIOUS
  <2>1. CASE check = NoCheck
    BY <2>1 DEF NoCheck, VerdictsStand
  <2>2. CASE check \in CheckRecords
    <3>1. check.changes \in Nat
      BY <2>2 DEF CheckRecords
    <3>2. check # NoCheck
      BY <2>2 DEF CheckRecords, NoCheck, Verdicts
    <3>3. check.changes = 0 => WalkKept
      BY <3>2 DEF PathInv
    <3> QED
      BY <3>1, <3>3 DEF VerdictsStand, WalkKept
  <2> QED
    BY <2>1, <2>2 DEF PathInv
<1> QED
  BY <1>1, PathHolds, PTL

-----------------------------------------------------------------------------
(* MountNaming: the ids of the shares configured, and their directories.        *)

NamingInv ==
  /\ \A s \in configured : /\ s.url \in Urls /\ UrlAccepted(s.url)
                           /\ ~s.given => s.point = PointOf(s.url)
  /\ \A s, t \in configured : ConfigId(s.url) = ConfigId(t.url) => s = t
  /\ answer.told =>
       answer.url \in Urls /\ (answer.id \in IdsIn(configured) \/ answer.url.scheme = "cifs")

\* Places of a sequence can be counted.
LEMMA PlacesAreCounted ==
  ASSUME NEW S, NEW s \in Seq(S), NEW places \in SUBSET DOMAIN s
  PROVE  Cardinality(places) \in Nat
<1>1. PICK n \in Nat : DOMAIN s = 1..n
  BY SeqDef
<1>2. IsFiniteSet(1..n)
  BY FS_Interval
<1> QED
  BY <1>1, <1>2, FS_Subset, FS_CardinalityType

\* What is left of a path is a sequence, and nothing of a path without components.
LEMMA SanitizedIsSequence ==
  ASSUME NEW p \in Paths
  PROVE  /\ Sanitized(p) \in Seq(Range(Sanitized(p)))
         /\ NoPath(p) => Sanitized(p) = <<>>
<1> DEFINE kept == {i \in DOMAIN p : p[i] # <<>>}
<1>1. p \in Seq(Component)
  <2>1. PICK m \in 0..MaxPath : p \in [1..m -> Component]
    BY DEF Paths, SeqOf
  <2> QED
    BY <2>1, SeqDef
<1>2. Cardinality(kept) \in Nat
  BY <1>1, PlacesAreCounted
<1>4. PICK q : q = Sanitized(p)
  OBVIOUS
<1>5. q = [n \in 1..Cardinality(kept) |->
             p[CHOOSE i \in kept : Cardinality({j \in kept : j <= i}) = n]]
  BY <1>4 DEF Sanitized
<1>6. DOMAIN q = 1..Cardinality(kept)
  BY <1>5
<1>7. q \in [1..Cardinality(kept) -> Range(q)]
  BY <1>5, <1>6 DEF Range
<1>8. q \in Seq(Range(q))
  <2>1. PICK k, R : k = Cardinality(kept) /\ R = Range(q)
    OBVIOUS
  <2>2. k \in Nat /\ q \in [1..k -> R]
    BY <1>2, <1>7, <2>1
  <2> QED
    BY <2>1, <2>2, SeqDef
<1>9. ASSUME NoPath(p) PROVE q = <<>>
  <2>1. kept = {}
    BY <1>9 DEF NoPath
  <2>2. Cardinality(kept) = 0
    BY <2>1, FS_EmptySet
  <2> QED
    BY <1>8, <1>6, <2>2
<1> QED
  BY <1>4, <1>8, <1>9

\* A directory tells the host, the protocol and what is left of the path.
LEMMA PointsTellPaths ==
  ASSUME NEW u \in Urls, NEW v \in Urls, PointOf(u) = PointOf(v)
  PROVE  /\ u.host = v.host /\ Protocol(u.scheme) = Protocol(v.scheme)
         /\ Sanitized(u.path) = Sanitized(v.path)
<1>1. u.path \in Paths /\ v.path \in Paths
  BY DEF Urls
<1>2. /\ PointOf(u) = <<u.host, Protocol(u.scheme)>> \o Sanitized(u.path)
      /\ PointOf(v) = <<v.host, Protocol(v.scheme)>> \o Sanitized(v.path)
  BY <1>1, SanitizedIsSequence DEF PointOf
<1>3. PICK p, q : p = Sanitized(u.path) /\ q = Sanitized(v.path)
  OBVIOUS
<1> DEFINE S == Range(p) \cup Range(q)
<1>4. p \in Seq(S) /\ q \in Seq(S)
  <2>1. p \in Seq(Range(p)) /\ q \in Seq(Range(q))
    BY <1>1, <1>3, SanitizedIsSequence
  <2> QED
    BY <2>1
<1> DEFINE T == S \cup {u.host, v.host, Protocol(u.scheme), Protocol(v.scheme)}
<1>5. PICK a, b : a = <<u.host, Protocol(u.scheme)>> /\ b = <<v.host, Protocol(v.scheme)>>
  OBVIOUS
<1>6. a \in Seq(T) /\ b \in Seq(T) /\ p \in Seq(T) /\ q \in Seq(T) /\ Len(a) = 2 /\ Len(b) = 2
  BY <1>4, <1>5
<1>7. a \o p = b \o q
  BY <1>2, <1>3, <1>5
<1> HIDE DEF S, T
<1>8. Len(p) = Len(q)
  <2>1. Len(a \o p) = Len(a) + Len(p)
    BY <1>6, ConcatProperties
  <2>2. Len(b \o q) = Len(b) + Len(q)
    BY <1>6, ConcatProperties
  <2>3. Len(p) \in Nat /\ Len(q) \in Nat
    BY <1>6
  <2> QED
    BY <1>6, <1>7, <2>1, <2>2, <2>3
<1>9. \A i \in 1..2 : a[i] = b[i]
  <2> TAKE i \in 1..2
  <2>1. i \in 1..Len(a) + Len(p) /\ i \in 1..Len(b) + Len(q) /\ i <= Len(a) /\ i <= Len(b)
    BY <1>6
  <2>2. (a \o p)[i] = a[i]
    BY <1>6, <2>1, ConcatProperties
  <2>3. (b \o q)[i] = b[i]
    BY <1>6, <2>1, ConcatProperties
  <2> QED
    BY <1>7, <2>2, <2>3
<1>10. \A i \in 1..Len(p) : p[i] = q[i]
  <2>1. \A i \in 1..Len(p) : (a \o p)[i + 2] = p[i]
    <3> TAKE i \in 1..Len(p)
    <3>1. \A k \in 1..(Len(a) + Len(p)) :
            (a \o p)[k] = IF k <= Len(a) THEN a[k] ELSE p[k - Len(a)]
      BY <1>6, ConcatProperties
    <3>2. PICK k : k = i + 2
      OBVIOUS
    <3>3. k \in 1..(Len(a) + Len(p)) /\ ~(k <= Len(a)) /\ k - Len(a) = i
      BY <1>6, <3>2
    <3>4. (a \o p)[k] = p[i]
      BY <3>1, <3>3
    <3> QED
      BY <3>2, <3>4
  <2>3. \A i \in 1..Len(q) : (b \o q)[i + 2] = q[i]
    <3> TAKE i \in 1..Len(q)
    <3>1. \A k \in 1..(Len(b) + Len(q)) :
            (b \o q)[k] = IF k <= Len(b) THEN b[k] ELSE q[k - Len(b)]
      BY <1>6, ConcatProperties
    <3>2. PICK k : k = i + 2
      OBVIOUS
    <3>3. k \in 1..(Len(b) + Len(q)) /\ ~(k <= Len(b)) /\ k - Len(b) = i
      BY <1>6, <3>2
    <3>4. (b \o q)[k] = q[i]
      BY <3>1, <3>3
    <3> QED
      BY <3>2, <3>4
  <2> QED
    BY <1>7, <1>8, <2>1, <2>3
<1>11. p = q
  BY <1>6, <1>8, <1>10
<1> QED
  BY <1>3, <1>5, <1>9, <1>11

LEMMA NamingStep == NamingInv /\ [NamingNext]_NamingVars => NamingInv'
<1> SUFFICES ASSUME NamingInv, [NamingNext]_NamingVars PROVE NamingInv'
  OBVIOUS
<1>1. ASSUME NEW u \in Urls, NEW given \in GivenPoints \cup {"none"}, MountUrl(u, given)
      PROVE  NamingInv'
  <2>1. PICK share : share = [url |-> u, given |-> given # "none",
                   point |-> IF given = "none" THEN PointOf(u) ELSE <<given>>]
    OBVIOUS
  <2>2. configured' = {s \in configured : ConfigId(s.url) # ConfigId(u)} \cup {share}
    BY <1>1, <2>1 DEF MountUrl
  <2>3. share.url = u /\ (~share.given => share.point = PointOf(u)) /\ UrlAccepted(u)
    BY <1>1, <2>1 DEF MountUrl
  <2>4. PICK a : a = [told |-> TRUE, id |-> HandlerId(u), url |-> u]
    OBVIOUS
  <2>5. answer' = a /\ a.id = HandlerId(u) /\ a.url = u
    BY <1>1, <2>4 DEF MountUrl
  <2>6. u.scheme # "cifs" => HandlerId(u) = ConfigId(u)
    BY DEF HandlerId, ConfigId, Protocol
  <2>7. ConfigId(u) \in IdsIn(configured')
    BY <2>2, <2>3 DEF IdsIn
  <2> QED
    BY <2>2, <2>3, <2>5, <2>6, <2>7 DEF NamingInv
<1>2. ASSUME NEW s \in configured, RemoveShare(s) PROVE NamingInv'
  <2>1. ~NoAnswer.told
    BY DEF NoAnswer
  <2> QED
    BY <1>2, <2>1 DEF RemoveShare, NamingInv
<1>3. CASE UNCHANGED NamingVars
  BY <1>3 DEF NamingVars, NamingInv
<1> QED
  BY <1>1, <1>2, <1>3 DEF NamingNext

LEMMA NamingHolds == NamingSpec => []NamingInv
<1>1. NamingInit => NamingInv
  BY DEF NamingInit, NamingInv, NoAnswer
<1> QED
  BY <1>1, NamingStep, PTL DEF NamingSpec

\* Whatever is mounted and removed: the id an answer names finds the share unless the
\* scheme is cifs, and two shares that chose no directory have one together only
\* where one is cifs or their paths differ in slashes alone.
THEOREM NamesStayTogether == NamingSpec => []NamesAgree
<1>1. NamingInv => NamesAgree
  <2> SUFFICES ASSUME NamingInv, NEW s \in configured, NEW t \in configured,
                      s # t, ~s.given, ~t.given, s.point = t.point,
                      "cifs" \notin {s.url.scheme, t.url.scheme}
               PROVE  Sanitized(s.url.path) = Sanitized(t.url.path) /\ s.url.path # t.url.path
    BY DEF NamingInv, NamesAgree
  <2>1. s.url \in Urls /\ t.url \in Urls /\ PointOf(s.url) = PointOf(t.url)
    BY DEF NamingInv
  <2>2. /\ s.url.host = t.url.host /\ Protocol(s.url.scheme) = Protocol(t.url.scheme)
        /\ Sanitized(s.url.path) = Sanitized(t.url.path)
    BY <2>1, PointsTellPaths
  <2>3. s.url.scheme = t.url.scheme
    BY <2>2 DEF Protocol
  <2>4. s.url.path = t.url.path => ConfigId(s.url) = ConfigId(t.url)
    BY <2>2, <2>3 DEF ConfigId
  <2> QED
    BY <2>2, <2>4 DEF NamingInv
<1> QED
  BY <1>1, NamingHolds, PTL

-----------------------------------------------------------------------------
(* MountCommand: the profile of the first command, and what it stops.           *)

\* The executor has the profile of the first kind that ran a command, and a command
\* the profile stopped is of a program it does not name.
ExecutorKept ==
  /\ firstKind \in Kinds \cup {NoKind}
  /\ executor = IF firstKind = NoKind THEN "none" ELSE Profile(firstKind)
ProfileInv ==
  /\ step # "idle" => request.kind \in Kinds
  /\ ExecutorKept
  /\ step = "profile" =>
       firstKind # NoKind /\ Program(request.kind) \notin ProfileCommands(executor)

LEMMA ProfileStep == ProfileInv /\ [MountCommandNext]_MountCommandVars => ProfileInv'
<1> SUFFICES ASSUME ProfileInv, [MountCommandNext]_MountCommandVars PROVE ProfileInv'
  OBVIOUS
<1>f. "none" \notin Kinds
  BY DEF Kinds
<1>1. ASSUME NEW r \in Requests, Ask(r) PROVE ProfileInv'
  <2>1. r.kind \in Kinds
    BY DEF Requests
  <2> QED
    BY <1>1, <2>1 DEF Ask, ProfileInv, ExecutorKept
<1>2. ASSUME NEW ok \in BOOLEAN, CheckDependency(ok) PROVE ProfileInv'
  BY <1>2 DEF CheckDependency, ProfileInv, ExecutorKept
<1>3. ASSUME BuildCommand PROVE ProfileInv'
  BY <1>3 DEF BuildCommand, ProfileInv, ExecutorKept
<1>4. ASSUME RunCommand PROVE ProfileInv'
  <2>1. request.kind \in Kinds /\ request' = request /\ step' \in {"running", "profile"}
    BY <1>4 DEF RunCommand, ProfileInv
  <2>2. ExecutorKept' /\ firstKind' # NoKind
    <3>1. CASE firstKind = NoKind
      BY <1>4, <1>f, <2>1, <3>1 DEF RunCommand, ProfileInv, ExecutorKept, NoKind
    <3>2. CASE firstKind # NoKind
      <4>1. executor # "none"
        BY <3>2 DEF ProfileInv, ExecutorKept, Profile
      <4> QED
        BY <1>4, <3>2, <4>1 DEF RunCommand, ProfileInv, ExecutorKept
    <3> QED
      BY <3>1, <3>2
  <2>3. step' = "profile" => Program(request.kind) \notin ProfileCommands(executor')
    BY <1>4 DEF RunCommand
  <2> QED
    BY <2>1, <2>2, <2>3 DEF ProfileInv
<1>5. ASSUME CommandSucceeds \/ \E timedOut \in BOOLEAN : CommandFails(timedOut) PROVE ProfileInv'
  BY <1>5 DEF CommandSucceeds, CommandFails, ProfileInv, ExecutorKept
<1>6. ASSUME NEW t \in Targets, NEW ok \in BOOLEAN, LateCommandEnds(t, ok) \/ UnmountTarget(t, ok)
      PROVE  ProfileInv'
  BY <1>6 DEF LateCommandEnds, UnmountTarget, ProfileInv, ExecutorKept
<1>7. ASSUME AnswerMount PROVE ProfileInv'
  BY <1>7 DEF AnswerMount, ProfileInv, ExecutorKept
<1>8. ASSUME ProcessRestarts PROVE ProfileInv'
  BY <1>8 DEF ProcessRestarts, ProfileInv, ExecutorKept
<1>9. CASE UNCHANGED MountCommandVars
  BY <1>9 DEF MountCommandVars, ProfileInv, ExecutorKept
<1> QED
  BY <1>1, <1>2, <1>3, <1>4, <1>5, <1>6, <1>7, <1>8, <1>9 DEF MountCommandNext

\* Whatever mounts a process serves, in whatever order, with time-outs and restarts: the
\* one command its profile stops is of an sshfs mount after an NFS or SMB mount was the
\* first to run.
THEOREM ProfileStopsLatecomers == MountCommandSpec => []StoppedByProfile
<1>1. MountCommandInit => ProfileInv
  BY DEF MountCommandInit, ProfileInv, ExecutorKept
<1>2. ProfileInv => StoppedByProfile
  <2> SUFFICES ASSUME ProfileInv, step = "profile"
               PROVE  request.kind = "sshfs" /\ firstKind \in {"nfs", "smb"}
    BY DEF StoppedByProfile
  <2>1. request.kind \in Kinds /\ firstKind \in Kinds /\ executor = Profile(firstKind)
        /\ Program(request.kind) \notin ProfileCommands(executor)
    BY DEF ProfileInv, ExecutorKept
  <2>2. "mount" \in ProfileCommands("Network") /\ "mount" \in ProfileCommands("Mount")
    BY DEF ProfileCommands
  <2>3. "sshfs" \in ProfileCommands("Network")
    BY DEF ProfileCommands
  <2>4. executor \in {"Network", "Mount"} /\ Program(request.kind) \in {"mount", "sshfs"}
    BY <2>1 DEF Profile, Program
  <2>5. executor = "Mount" /\ Program(request.kind) = "sshfs"
    BY <2>1, <2>2, <2>3, <2>4
  <2> QED
    BY <2>1, <2>5 DEF Profile, Program, Kinds
<1> QED
  BY <1>1, <1>2, ProfileStep, PTL DEF MountCommandSpec

-----------------------------------------------------------------------------
(* MountOptions: what the parser reads, what `retain` keeps, what a driver merges. *)

\* What the parser has read is what its steps make of it.
LEMMA ParsedStepwise ==
  ASSUME NEW given, Len(given) \in Nat
  PROVE  /\ ParsedAfter(given)[0] = Parsing
         /\ \A n \in 1..Len(given) :
              ParsedAfter(given)[n] = ParseOption(ParsedAfter(given)[n - 1], given[n])
<1> DEFINE Upto(g, m) ==
             g = [n \in 0..m |->
                    IF n = 0 THEN Parsing ELSE ParseOption(g[n - 1], given[n])]
           Short == {m \in Nat : m <= Len(given) /\ ~\E g : Upto(g, m)}
<1>1. Short = {}
  <2> SUFFICES ASSUME Short # {} PROVE FALSE
    OBVIOUS
  <2>1. Short \subseteq Nat
    OBVIOUS
  <2>2. PICK m \in Short : \A c \in Short : m <= c
    <3> HIDE DEF Short
    <3> QED
      BY <2>1, LeastNumber
  <2>3. m \in Nat /\ m <= Len(given) /\ ~\E g : Upto(g, m)
    BY <2>2
  <2>4. CASE m = 0
    <3>1. Upto([n \in 0..m |-> Parsing], m)
      BY <2>4
    <3> HIDE DEF Upto
    <3> QED
      BY <3>1, <2>3
  <2>5. CASE m # 0
    <3>1. m - 1 \notin Short /\ m - 1 \in Nat /\ m - 1 <= Len(given)
      <4> HIDE DEF Short, Upto
      <4> QED
        BY <2>2, <2>3, <2>5
    <3>2. PICK g : Upto(g, m - 1)
      <4> HIDE DEF Upto
      <4> QED
        BY <3>1
    <3> DEFINE h == [n \in 0..m |-> IF n = 0 THEN Parsing ELSE ParseOption(g[n - 1], given[n])]
    <3>3. \A n \in 0..(m - 1) : h[n] = g[n]
      BY <3>2, <2>3, <2>5
    <3>4. \A n \in 0..m : n # 0 => n - 1 \in 0..(m - 1)
      BY <2>3
    <3>5. Upto(h, m)
      BY <3>3, <3>4
    <3> HIDE DEF Upto
    <3> QED
      BY <3>5, <2>3
  <2> QED
    BY <2>4, <2>5
<1>2. \E g : Upto(g, Len(given))
  <2> HIDE DEF Upto
  <2> QED
    BY <1>1
<1>3. ParsedAfter(given) = CHOOSE g : Upto(g, Len(given))
  BY DEF ParsedAfter
<1>4. Upto(ParsedAfter(given), Len(given))
  <2> HIDE DEF Upto
  <2> QED
    BY <1>2, <1>3
<1> QED
  BY <1>4

\* What is kept of a list is kept step by step.
LEMMA KeptStepwise ==
  ASSUME NEW given, NEW dropped, Len(given) \in Nat
  PROVE  /\ KeptAfter(given, dropped)[0] = <<>>
         /\ \A n \in 1..Len(given) :
              /\ given[n].key \in dropped =>
                   KeptAfter(given, dropped)[n] = KeptAfter(given, dropped)[n - 1]
              /\ given[n].key \notin dropped =>
                   KeptAfter(given, dropped)[n] =
                     Append(KeptAfter(given, dropped)[n - 1], given[n])
<1> DEFINE Upto(g, m) ==
             g = [n \in 0..m |-> IF n = 0 THEN <<>>
                                 ELSE (IF given[n].key \in dropped THEN g[n - 1]
                                       ELSE Append(g[n - 1], given[n]))]
           Short == {m \in Nat : m <= Len(given) /\ ~\E g : Upto(g, m)}
<1>1. Short = {}
  <2> SUFFICES ASSUME Short # {} PROVE FALSE
    OBVIOUS
  <2>1. Short \subseteq Nat
    OBVIOUS
  <2>2. PICK m \in Short : \A c \in Short : m <= c
    <3> HIDE DEF Short
    <3> QED
      BY <2>1, LeastNumber
  <2>3. m \in Nat /\ m <= Len(given) /\ ~\E g : Upto(g, m)
    BY <2>2
  <2>4. CASE m = 0
    <3>1. Upto([n \in 0..m |-> <<>>], m)
      BY <2>4
    <3> HIDE DEF Upto
    <3> QED
      BY <3>1, <2>3
  <2>5. CASE m # 0
    <3>1. m - 1 \notin Short /\ m - 1 \in Nat /\ m - 1 <= Len(given)
      <4> HIDE DEF Short, Upto
      <4> QED
        BY <2>2, <2>3, <2>5
    <3>2. PICK g : Upto(g, m - 1)
      <4> HIDE DEF Upto
      <4> QED
        BY <3>1
    <3> DEFINE h == [n \in 0..m |-> IF n = 0 THEN <<>>
                                    ELSE (IF given[n].key \in dropped THEN g[n - 1]
                                          ELSE Append(g[n - 1], given[n]))]
    <3>3. \A n \in 0..(m - 1) : h[n] = g[n]
      <4> TAKE n \in 0..(m - 1)
      <4>1. n \in 0..m
        BY <2>3
      <4> QED
        BY <4>1, <3>2
    <3>4. \A n \in 0..m : n # 0 => n - 1 \in 0..(m - 1)
      BY <2>3
    <3>5. Upto(h, m)
      BY <3>3, <3>4
    <3> HIDE DEF Upto
    <3> QED
      BY <3>5, <2>3
  <2> QED
    BY <2>4, <2>5
<1>2. \E g : Upto(g, Len(given))
  <2> HIDE DEF Upto
  <2> QED
    BY <1>1
<1>3. KeptAfter(given, dropped) = CHOOSE g : Upto(g, Len(given))
  BY DEF KeptAfter
<1>4. Upto(KeptAfter(given, dropped), Len(given))
  <2> HIDE DEF Upto
  <2> QED
    BY <1>2, <1>3
<1>5. ASSUME NEW n \in 1..Len(given)
      PROVE  /\ given[n].key \in dropped =>
                  KeptAfter(given, dropped)[n] = KeptAfter(given, dropped)[n - 1]
             /\ given[n].key \notin dropped =>
                  KeptAfter(given, dropped)[n] =
                    Append(KeptAfter(given, dropped)[n - 1], given[n])
  <2>1. n \in 0..Len(given) /\ n # 0
    OBVIOUS
  <2> QED
    BY <2>1, <1>4
<1>6. KeptAfter(given, dropped)[0] = <<>>
  BY <1>4
<1> HIDE DEF Upto, Short
<1> QED
  BY <1>5, <1>6

\* The driver's list is made step by step.
LEMMA MergedStepwise ==
  ASSUME NEW given, Len(given) \in Nat
  PROVE  /\ MergedAfter(given)[0] = NfsDefaults
         /\ \A n \in 1..Len(given) :
              MergedAfter(given)[n] = MergeOption(MergedAfter(given)[n - 1], given[n])
<1> DEFINE Upto(g, m) ==
             g = [n \in 0..m |->
                    IF n = 0 THEN NfsDefaults ELSE MergeOption(g[n - 1], given[n])]
           Short == {m \in Nat : m <= Len(given) /\ ~\E g : Upto(g, m)}
<1>1. Short = {}
  <2> SUFFICES ASSUME Short # {} PROVE FALSE
    OBVIOUS
  <2>1. Short \subseteq Nat
    OBVIOUS
  <2>2. PICK m \in Short : \A c \in Short : m <= c
    <3> HIDE DEF Short
    <3> QED
      BY <2>1, LeastNumber
  <2>3. m \in Nat /\ m <= Len(given) /\ ~\E g : Upto(g, m)
    BY <2>2
  <2>4. CASE m = 0
    <3>1. Upto([n \in 0..m |-> NfsDefaults], m)
      BY <2>4
    <3> HIDE DEF Upto
    <3> QED
      BY <3>1, <2>3
  <2>5. CASE m # 0
    <3>1. m - 1 \notin Short /\ m - 1 \in Nat /\ m - 1 <= Len(given)
      <4> HIDE DEF Short, Upto
      <4> QED
        BY <2>2, <2>3, <2>5
    <3>2. PICK g : Upto(g, m - 1)
      <4> HIDE DEF Upto
      <4> QED
        BY <3>1
    <3> DEFINE h == [n \in 0..m |-> IF n = 0 THEN NfsDefaults ELSE MergeOption(g[n - 1], given[n])]
    <3>3. \A n \in 0..(m - 1) : h[n] = g[n]
      BY <3>2, <2>3, <2>5
    <3>4. \A n \in 0..m : n # 0 => n - 1 \in 0..(m - 1)
      BY <2>3
    <3>5. Upto(h, m)
      BY <3>3, <3>4
    <3> HIDE DEF Upto
    <3> QED
      BY <3>5, <2>3
  <2> QED
    BY <2>4, <2>5
<1>2. \E g : Upto(g, Len(given))
  <2> HIDE DEF Upto
  <2> QED
    BY <1>1
<1>3. MergedAfter(given) = CHOOSE g : Upto(g, Len(given))
  BY DEF MergedAfter
<1>4. Upto(MergedAfter(given), Len(given))
  <2> HIDE DEF Upto
  <2> QED
    BY <1>2, <1>3
<1> QED
  BY <1>4

\* A list is what a longer one has at some places, in its order.
InOrder(short, long, places) ==
  \E f \in [1..Len(short) -> places] :
     /\ \A m, n \in 1..Len(short) : m < n => f[m] < f[n]
     /\ \A i \in places : \E m \in 1..Len(short) : f[m] = i
     /\ \A m \in 1..Len(short) : short[m] = long[f[m]]

LEMMA EmptyInOrder ==
  ASSUME NEW long PROVE InOrder(<<>>, long, {})
<1> DEFINE f == [m \in 1..Len(<<>>) |-> 0]
<1>1. 1..Len(<<>>) = {}
  OBVIOUS
<1>2. f \in [1..Len(<<>>) -> {}]
  BY <1>1
<1> QED
  BY <1>1, <1>2 DEF InOrder

LEMMA AppendInOrder ==
  ASSUME NEW T, NEW short \in Seq(T), NEW long, NEW places, places \subseteq Nat,
         InOrder(short, long, places),
         NEW k \in Nat, \A i \in places : i < k, long[k] \in T
  PROVE  InOrder(Append(short, long[k]), long, places \cup {k})
<1> DEFINE all == Append(short, long[k])
           l == Len(short)
<1>1. PICK f \in [1..Len(short) -> places] :
         /\ \A m, n \in 1..Len(short) : m < n => f[m] < f[n]
         /\ \A i \in places : \E m \in 1..Len(short) : f[m] = i
         /\ \A m \in 1..Len(short) : short[m] = long[f[m]]
  BY DEF InOrder
<1>2. l \in Nat /\ Len(all) = l + 1 /\ all[l + 1] = long[k] /\ \A m \in 1..l : all[m] = short[m]
  OBVIOUS
<1> HIDE DEF all, l
<1> DEFINE h == [m \in 1..(l + 1) |-> IF m = l + 1 THEN k ELSE f[m]]
<1>3. \A m \in 1..(l + 1) : m # l + 1 => m \in 1..l
  BY <1>2
<1>f. f \in [1..l -> places]
  BY DEF l
<1>4. h \in [1..(l + 1) -> places \cup {k}]
  BY <1>2, <1>3, <1>f
<1>5. ASSUME NEW m \in 1..(l + 1), NEW n \in 1..(l + 1), m < n PROVE h[m] < h[n]
  <2>1. m \in 1..l /\ h[m] = f[m] /\ f[m] \in places
    BY <1>2, <1>5, <1>f
  <2>2. CASE n = l + 1
    BY <2>1, <2>2
  <2>3. CASE n # l + 1
    <3>1. n \in 1..l /\ h[n] = f[n]
      BY <2>3, <1>2
    <3> QED
      BY <2>1, <3>1, <1>1, <1>5 DEF l
  <2> QED
    BY <2>2, <2>3
<1>6. ASSUME NEW i \in places \cup {k} PROVE \E m \in 1..(l + 1) : h[m] = i
  <2>1. CASE i \in places
    <3>1. PICK m \in 1..l : f[m] = i
      BY <1>1, <2>1 DEF l
    <3>2. m \in 1..(l + 1) /\ h[m] = i
      BY <3>1, <1>2
    <3> QED
      BY <3>2
  <2>2. CASE i = k
    <3>1. l + 1 \in 1..(l + 1) /\ h[l + 1] = i
      BY <1>2, <2>2
    <3> QED
      BY <3>1
  <2> QED
    BY <2>1, <2>2
<1>7. ASSUME NEW m \in 1..(l + 1) PROVE all[m] = long[h[m]]
  <2>1. CASE m = l + 1
    BY <2>1, <1>2
  <2>2. CASE m # l + 1
    <3>1. m \in 1..l /\ h[m] = f[m]
      BY <2>2, <1>2
    <3> QED
      BY <3>1, <1>1, <1>2 DEF l
  <2> QED
    BY <2>1, <2>2
<1> HIDE DEF h
<1> DEFINE ks == places \cup {k}
<1>9. h \in [1..Len(all) -> ks] /\ 1..Len(all) = 1..(l + 1) /\ \A i \in ks : i \in places \cup {k}
  BY <1>2, <1>4
<1> HIDE DEF ks
<1>a. \A m, n \in 1..Len(all) : m < n => h[m] < h[n]
  BY <1>9, <1>5
<1>b. \A i \in ks : \E m \in 1..Len(all) : h[m] = i
  BY <1>9, <1>6
<1>c. \A m \in 1..Len(all) : all[m] = long[h[m]]
  BY <1>9, <1>7
<1>8. InOrder(all, long, ks)
  BY <1>9, <1>a, <1>b, <1>c, Zenon DEF InOrder
<1> QED
  BY <1>8 DEF all, ks

\* Where the elements of two joined lists are.
LEMMA JoinedLists ==
  ASSUME NEW T, NEW front \in Seq(T), NEW back \in Seq(T)
  PROVE  /\ front \o back \in Seq(T)
         /\ Len(front \o back) = Len(front) + Len(back)
         /\ \A i \in 1..Len(front) : (front \o back)[i] = front[i]
         /\ \A i \in 1..Len(back) : (front \o back)[Len(front) + i] = back[i]
OBVIOUS

\* What is kept is in order, and nothing else is missing.
LEMMA WithoutKeeps ==
  ASSUME NEW T, NEW given \in Seq(T), NEW dropped
  PROVE  /\ Without(given, dropped) \in Seq(T)
         /\ InOrder(Without(given, dropped), given,
                    {i \in 1..Len(given) : given[i].key \notin dropped})
<1> DEFINE kept(n) == {i \in 1..n : given[i].key \notin dropped}
           Fine(n) == /\ KeptAfter(given, dropped)[n] \in Seq(T)
                      /\ InOrder(KeptAfter(given, dropped)[n], given, kept(n))
           Bad == {n \in Nat : n <= Len(given) /\ ~Fine(n)}
<1>l. Len(given) \in Nat
  OBVIOUS
<1>1. Bad = {}
  <2> SUFFICES ASSUME Bad # {} PROVE FALSE
    OBVIOUS
  <2>1. Bad \subseteq Nat
    OBVIOUS
  <2>2. PICK n \in Bad : \A c \in Bad : n <= c
    <3> HIDE DEF Bad
    <3> QED
      BY <2>1, LeastNumber
  <2>3. n \in Nat /\ n <= Len(given) /\ ~Fine(n)
    BY <2>2
  <2>4. CASE n = 0
    <3>1. KeptAfter(given, dropped)[n] = <<>>
      BY <2>4, <1>l, KeptStepwise
    <3>2. kept(n) = {}
      BY <2>4
    <3>4. <<>> \in Seq(T)
      OBVIOUS
    <3>5. InOrder(KeptAfter(given, dropped)[n], given, kept(n))
      <4> HIDE DEF kept
      <4> QED
        BY <3>1, <3>2, EmptyInOrder
    <3>3. Fine(n)
      <4> HIDE DEF kept
      <4> QED
        BY <3>1, <3>4, <3>5
    <3> HIDE DEF Fine
    <3> QED
      BY <3>3, <2>3
  <2>5. CASE n # 0
    <3>1. n - 1 \notin Bad /\ n - 1 \in Nat /\ n - 1 <= Len(given) /\ n \in 1..Len(given)
      <4> HIDE DEF Bad, Fine
      <4> QED
        BY <2>2, <2>3, <2>5, <1>l
    <3>2. Fine(n - 1)
      <4> HIDE DEF Fine
      <4> QED
        BY <3>1
    <3>3. given[n] \in T
      BY <3>1
    <3>4. CASE given[n].key \in dropped
      <4>1. KeptAfter(given, dropped)[n] = KeptAfter(given, dropped)[n - 1]
        BY <3>1, <3>4, <1>l, KeptStepwise
      <4>2. kept(n) = kept(n - 1)
        BY <3>1, <3>4
      <4>3. Fine(n)
        BY <4>1, <4>2, <3>2
      <4> HIDE DEF Fine
      <4> QED
        BY <4>3, <2>3
    <3>5. CASE given[n].key \notin dropped
      <4>1. KeptAfter(given, dropped)[n] = Append(KeptAfter(given, dropped)[n - 1], given[n])
        BY <3>1, <3>5, <1>l, KeptStepwise
      <4>2. kept(n) = kept(n - 1) \cup {n}
        BY <3>1, <3>5
      <4>3. kept(n - 1) \subseteq Nat /\ \A i \in kept(n - 1) : i < n
        BY <3>1
      <4> DEFINE ks == kept(n - 1)
                 before == KeptAfter(given, dropped)[n - 1]
      <4>4. before \in Seq(T) /\ InOrder(before, given, ks) /\ ks \subseteq Nat /\ \A i \in ks : i < n
        BY <3>2, <4>3
      <4> HIDE DEF ks, before
      <4>5. InOrder(Append(before, given[n]), given, ks \cup {n})
        BY <4>4, <3>3, <3>1, AppendInOrder
      <4>6. Append(before, given[n]) \in Seq(T)
        BY <4>4, <3>3
      <4>7. Fine(n)
        BY <4>1, <4>2, <4>5, <4>6 DEF ks, before
      <4> HIDE DEF Fine
      <4> QED
        BY <4>7, <2>3
    <3> QED
      BY <3>4, <3>5
  <2> QED
    BY <2>4, <2>5
<1>2. Fine(Len(given))
  <2> HIDE DEF Fine
  <2> QED
    BY <1>1, <1>l
<1> QED
  BY <1>2 DEF Without

\* What is in order in a list that is in order in a longer one.
LEMMA FilterInOrder ==
  ASSUME NEW short, NEW mid, NEW long, NEW places, NEW dropped, NEW ks, NEW us,
         Len(short) \in Nat, Len(mid) \in Nat, places \subseteq Nat,
         InOrder(mid, long, places), InOrder(short, mid, ks),
         \A i : i \in ks <=> i \in 1..Len(mid) /\ mid[i].key \notin dropped,
         \A i : i \in us <=> i \in places /\ long[i].key \notin dropped
  PROVE  InOrder(short, long, us)
<1>1. PICK f \in [1..Len(mid) -> places] :
         /\ \A m, n \in 1..Len(mid) : m < n => f[m] < f[n]
         /\ \A i \in places : \E m \in 1..Len(mid) : f[m] = i
         /\ \A m \in 1..Len(mid) : mid[m] = long[f[m]]
  BY DEF InOrder
<1>2. PICK h \in [1..Len(short) -> ks] :
         /\ \A m, n \in 1..Len(short) : m < n => h[m] < h[n]
         /\ \A i \in ks : \E m \in 1..Len(short) : h[m] = i
         /\ \A m \in 1..Len(short) : short[m] = mid[h[m]]
  BY DEF InOrder
<1>3. ks \subseteq 1..Len(mid) /\ \A m \in ks : f[m] \in us
  BY <1>1
<1>4. \A i \in us : \E m \in ks : f[m] = i
  BY <1>1
<1> DEFINE g == [m \in 1..Len(short) |-> f[h[m]]]
<1>5. g \in [1..Len(short) -> us]
  BY <1>2, <1>3
<1>6. \A m, n \in 1..Len(short) : m < n => g[m] < g[n]
  BY <1>1, <1>2, <1>3
<1>7. \A i \in us : \E m \in 1..Len(short) : g[m] = i
  BY <1>2, <1>4
<1>8. \A m \in 1..Len(short) : short[m] = long[g[m]]
  BY <1>1, <1>2, <1>3
<1> HIDE DEF g
<1> QED
  BY <1>5, <1>6, <1>7, <1>8 DEF InOrder

\* The keys an option of the request drops from the list.
KeysOver(k) == {k} \cup UNION {pair \in ConflictPairs : k \in pair}

LEMMA PairsAreTwo ==
  ASSUME NEW pair \in ConflictPairs PROVE \E a, b : pair = {a, b}
BY DEF ConflictPairs

LEMMA KeysOverAre ==
  ASSUME NEW k, NEW j PROVE j \in KeysOver(k) <=> j = k \/ Conflicting(k, j)
<1>1. ASSUME j \in KeysOver(k), j # k PROVE Conflicting(k, j)
  <2>1. PICK pair \in ConflictPairs : k \in pair /\ j \in pair
    BY <1>1 DEF KeysOver
  <2>2. PICK a, b : pair = {a, b}
    BY <2>1, PairsAreTwo
  <2>3. pair = {k, j}
    BY <2>1, <2>2, <1>1
  <2> QED
    BY <2>3 DEF Conflicting
<1>2. ASSUME Conflicting(k, j) PROVE j \in KeysOver(k)
  BY <1>2 DEF KeysOver, Conflicting
<1>3. k \in KeysOver(k)
  BY DEF KeysOver
<1> QED
  BY <1>1, <1>2, <1>3

\* No default overrides another.
LEMMA DefaultsAgree ==
  /\ NfsDefaults \in Seq({Flag("nolock"), Valued("timeo", 50), Valued("retrans", 2),
                          Flag("soft"), Flag("_netdev")})
  /\ Len(NfsDefaults) = 5
  /\ \A i, j \in 1..5 : i # j => ~Overrides(NfsDefaults[j], NfsDefaults[i])
<1>1. /\ NfsDefaults[1] = Flag("nolock") /\ NfsDefaults[2] = Valued("timeo", 50)
      /\ NfsDefaults[3] = Valued("retrans", 2) /\ NfsDefaults[4] = Flag("soft")
      /\ NfsDefaults[5] = Flag("_netdev") /\ Len(NfsDefaults) = 5
  BY DEF NfsDefaults
<1>2. /\ NfsDefaults[1].key = "nolock" /\ NfsDefaults[2].key = "timeo"
      /\ NfsDefaults[3].key = "retrans" /\ NfsDefaults[4].key = "soft"
      /\ NfsDefaults[5].key = "_netdev"
  BY <1>1 DEF Flag, Valued
<1> DEFINE ks == {"nolock", "timeo", "retrans", "soft", "_netdev"}
<1>3. \A pair \in ConflictPairs : \A a, b \in ks : a \in pair /\ b \in pair => a = b
  BY DEF ConflictPairs
<1>4. \A a, b \in ks : Conflicting(a, b) => a = b
  <2> TAKE a \in ks, b \in ks
  <2> HAVE Conflicting(a, b)
  <2>1. {a, b} \in ConflictPairs /\ a \in {a, b} /\ b \in {a, b}
    BY DEF Conflicting
  <2> HIDE DEF ks
  <2> QED
    BY <2>1, <1>3
<1>5. ASSUME NEW i \in 1..5, NEW j \in 1..5, i # j
      PROVE  ~Overrides(NfsDefaults[j], NfsDefaults[i])
  <2>1. NfsDefaults[i].key \in ks /\ NfsDefaults[j].key \in ks
    BY <1>2
  <2>2. NfsDefaults[i].key # NfsDefaults[j].key
    BY <1>2, <1>5
  <2> HIDE DEF ks
  <2> QED
    BY <2>1, <2>2, <1>4 DEF Overrides
<1> QED
  BY <1>1, <1>5 DEF NfsDefaults

\* The defaults come first, then the request's options.
LEMMA DefaultsFirst ==
  ASSUME NEW T, NEW given \in Seq(T), NfsDefaults \in Seq(T)
  PROVE  /\ NfsDefaults \o given \in Seq(T)
         /\ Len(NfsDefaults \o given) = 5 + Len(given)
         /\ \A i \in 1..5 : (NfsDefaults \o given)[i] = NfsDefaults[i]
         /\ \A n \in 1..Len(given) : (NfsDefaults \o given)[5 + n] = given[n]
<1>1. Len(NfsDefaults) = 5
  BY DefaultsAgree
<1>2. /\ NfsDefaults \o given \in Seq(T)
      /\ Len(NfsDefaults \o given) = Len(NfsDefaults) + Len(given)
      /\ \A i \in 1..Len(NfsDefaults) : (NfsDefaults \o given)[i] = NfsDefaults[i]
      /\ \A n \in 1..Len(given) : (NfsDefaults \o given)[Len(NfsDefaults) + n] = given[n]
  OBVIOUS
<1> QED
  BY <1>1, <1>2

\* The places of a list that none of the first n places overrides from behind.
Standing(all, n) ==
  {i \in 1..n : \A j \in (i + 1)..n : ~Overrides(all[j], all[i])}

\* The driver's list is what stands of the defaults and the request, in order.
LEMMA MergedStands ==
  ASSUME NEW T, NEW given \in Seq(T), NfsDefaults \in Seq(T)
  PROVE  /\ NfsOptions(given) \in Seq(T)
         /\ InOrder(NfsOptions(given), NfsDefaults \o given,
                    Standing(NfsDefaults \o given, 5 + Len(given)))
<1> DEFINE all == NfsDefaults \o given
           Fine(n) == /\ MergedAfter(given)[n] \in Seq(T)
                      /\ InOrder(MergedAfter(given)[n], all, Standing(all, 5 + n))
           Bad == {n \in Nat : n <= Len(given) /\ ~Fine(n)}
<1>l. Len(given) \in Nat /\ Len(NfsDefaults) = 5
  BY DefaultsAgree
<1>a. /\ \A i \in 1..5 : all[i] = NfsDefaults[i]
      /\ \A n \in 1..Len(given) : all[5 + n] = given[n]
  BY <1>l, DefaultsFirst
<1> HIDE DEF all
<1>1. Bad = {}
  <2> SUFFICES ASSUME Bad # {} PROVE FALSE
    OBVIOUS
  <2>1. Bad \subseteq Nat
    OBVIOUS
  <2>2. PICK n \in Bad : \A c \in Bad : n <= c
    <3> HIDE DEF Bad
    <3> QED
      BY <2>1, LeastNumber
  <2>3. n \in Nat /\ n <= Len(given) /\ ~Fine(n)
    BY <2>2
  <2>4. CASE n = 0
    <3>1. MergedAfter(given)[n] = NfsDefaults
      BY <2>4, <1>l, MergedStepwise
    <3>2. Standing(all, 5 + n) = 1..5
      BY <2>4, <1>a, DefaultsAgree DEF Standing
    <3> DEFINE f == [i \in 1..5 |-> i]
    <3>3. f \in [1..5 -> 1..5] /\ (\A i, j \in 1..5 : i < j => f[i] < f[j])
          /\ (\A i \in 1..5 : \E j \in 1..5 : f[j] = i)
      OBVIOUS
    <3>4. \A i \in 1..5 : NfsDefaults[i] = all[f[i]]
      BY <1>a
    <3> HIDE DEF f
    <3>5. InOrder(NfsDefaults, all, 1..5)
      BY <3>3, <3>4, <1>l DEF InOrder
    <3>6. Fine(n)
      BY <3>1, <3>2, <3>5
    <3> HIDE DEF Fine
    <3> QED
      BY <3>6, <2>3
  <2>5. CASE n # 0
    <3>1. n - 1 \notin Bad /\ n - 1 \in Nat /\ n - 1 <= Len(given) /\ n \in 1..Len(given)
      <4> HIDE DEF Bad, Fine
      <4> QED
        BY <2>2, <2>3, <2>5, <1>l
    <3>2. Fine(n - 1)
      <4> HIDE DEF Fine
      <4> QED
        BY <3>1
    <3> DEFINE before == MergedAfter(given)[n - 1]
               os == KeysOver(given[n].key)
               ps == Standing(all, 5 + (n - 1))
               rest == Without(before, os)
               qs == {i \in ps : all[i].key \notin os}
    <3>3. MergedAfter(given)[n] = Append(rest, given[n])
      BY <3>1, <1>l, MergedStepwise DEF MergeOption, KeysOver
    <3>4. given[n] \in T /\ given[n] = all[5 + n] /\ 5 + n \in Nat
      BY <3>1, <1>a
    <3>5. ps \subseteq 1..(4 + n)
      BY <3>1 DEF Standing
    <3>6. before \in Seq(T) /\ InOrder(before, all, ps)
      BY <3>2
    <3>7. Standing(all, 5 + n) = qs \cup {5 + n}
      <4>1. \A i \in 1..(4 + n) : all[i].key \notin os <=> ~Overrides(all[5 + n], all[i])
        BY <3>4, KeysOverAre DEF Overrides
      <4>2. 5 + (n - 1) = 4 + n
        BY <3>1
      <4>3. \A i : i \in 1..(5 + n) <=> i \in 1..(4 + n) \/ i = 5 + n
        BY <3>1
      <4>4. ASSUME NEW i \in 1..(4 + n), NEW j
            PROVE  j \in (i + 1)..(5 + n) <=> j \in (i + 1)..(4 + n) \/ j = 5 + n
        BY <3>1
      <4>5. \A j : j \notin (5 + n + 1)..(5 + n)
        BY <3>1
      <4>6. ASSUME NEW i PROVE i \in Standing(all, 5 + n) <=> i \in qs \cup {5 + n}
        <5>1. CASE i \in 1..(4 + n)
          <6>1. i # 5 + n /\ i \in 1..(5 + n)
            BY <5>1, <3>1
          <6>2. i \in ps <=> \A j \in (i + 1)..(4 + n) : ~Overrides(all[j], all[i])
            BY <5>1, <4>2 DEF Standing
          <6>3. i \in Standing(all, 5 + n) <=> \A j \in (i + 1)..(5 + n) : ~Overrides(all[j], all[i])
            BY <6>1 DEF Standing
          <6>4. (\A j \in (i + 1)..(5 + n) : ~Overrides(all[j], all[i]))
                <=> /\ \A j \in (i + 1)..(4 + n) : ~Overrides(all[j], all[i])
                    /\ ~Overrides(all[5 + n], all[i])
            BY <5>1, <4>4
          <6> HIDE DEF os, ps
          <6> QED
            BY <6>1, <6>2, <6>3, <6>4, <4>1, <5>1
        <5>2. CASE i = 5 + n
          BY <5>2, <4>5, <4>3 DEF Standing
        <5>3. CASE i \notin 1..(5 + n)
          BY <5>3, <4>3, <3>5 DEF Standing
        <5> QED
          BY <5>1, <5>2, <5>3, <4>3
      <4> QED
        BY <4>6
    <3> HIDE DEF os, ps, before
    <3>8. rest \in Seq(T) /\ InOrder(rest, before, {i \in 1..Len(before) : before[i].key \notin os})
      BY <3>6, WithoutKeeps
    <3>9. InOrder(rest, all, qs)
      <4>1. Len(rest) \in Nat /\ Len(before) \in Nat /\ ps \subseteq Nat
        BY <3>5, <3>6, <3>8, <3>1
      <4> DEFINE ks == {i \in 1..Len(before) : before[i].key \notin os}
      <4>2. \A i : i \in ks <=> i \in 1..Len(before) /\ before[i].key \notin os
        OBVIOUS
      <4>3. \A i : i \in qs <=> i \in ps /\ all[i].key \notin os
        OBVIOUS
      <4>4. InOrder(rest, before, ks)
        BY <3>8
      <4> HIDE DEF rest, qs, ks
      <4> QED
        BY <4>1, <4>2, <4>3, <4>4, <3>6, FilterInOrder
    <3>10. qs \subseteq Nat /\ \A i \in qs : i < 5 + n
      <4>1. qs \subseteq ps
        OBVIOUS
      <4> HIDE DEF qs
      <4> QED
        BY <4>1, <3>5, <3>1
    <3> HIDE DEF rest, qs
    <3>11. InOrder(Append(rest, all[5 + n]), all, qs \cup {5 + n})
      BY <3>4, <3>8, <3>9, <3>10, AppendInOrder
    <3>12. Append(rest, given[n]) \in Seq(T)
      BY <3>4, <3>8
    <3>13. Fine(n)
      BY <3>3, <3>4, <3>7, <3>11, <3>12
    <3> HIDE DEF Fine
    <3> QED
      BY <3>13, <2>3
  <2> QED
    BY <2>4, <2>5
<1>2. Fine(Len(given))
  <2> HIDE DEF Fine
  <2> QED
    BY <1>1, <1>l
<1> QED
  BY <1>2 DEF NfsOptions, all

Parses(K, V) == [keys : SUBSET K, ro : BOOLEAN, soft : BOOLEAN, refused : BOOLEAN,
                 num : [Numbers -> V]]

\* What one option does to what the parser has read.
LEMMA FlagParsed ==
  ASSUME NEW K, NEW V, NEW p \in Parses(K, V), NEW o, o.key \in K,
         ~p.refused, o.val = NoValue
  PROVE  LET q == ParseOption(p, o)
         IN /\ q \in Parses(K, V)
            /\ q.keys = p.keys \cup {o.key} /\ q.num = p.num
            /\ q.ro => p.ro \/ o.key = "ro"
            /\ q.refused => "ro" \in q.keys /\ "rw" \in q.keys
<1> DEFINE q == ParseFlag(p, o)
           a == p.keys \cup {o.key}
           b == (o.key = "ro") \/ (p.ro /\ o.key # "rw")
           c == (o.key = "soft") \/ (p.soft /\ o.key # "hard")
           d == \/ o.key = "ro" /\ "rw" \in p.keys
                \/ o.key = "rw" /\ "ro" \in p.keys
<1>1. ParseOption(p, o) = q
  BY DEF ParseOption
<1>2. q = [p EXCEPT !.keys = a, !.ro = b, !.soft = c, !.refused = d]
  BY Zenon DEF ParseFlag
<1>3. a \in SUBSET K
  BY DEF Parses
<1>4. b \in BOOLEAN /\ c \in BOOLEAN /\ d \in BOOLEAN
  BY Zenon
<1> HIDE DEF q, a, b, c, d
<1>5. q.keys = a /\ q.ro = b /\ q.refused = d /\ q.num = p.num /\ q \in Parses(K, V)
  BY <1>2, <1>3, <1>4 DEF Parses
<1>6. q.ro => p.ro \/ o.key = "ro"
  BY <1>5, Zenon DEF b
<1>7. d => "ro" \in a /\ "rw" \in a
  BY DEF d, a
<1>8. q.refused => "ro" \in q.keys /\ "rw" \in q.keys
  BY <1>5, <1>7, Zenon
<1> QED
  BY <1>1, <1>5, <1>6, <1>8 DEF a

LEMMA ValueParsed ==
  ASSUME NEW K, NEW V, NEW p \in Parses(K, V), NEW o, o.key \in K, o.val \in V,
         ~p.refused, o.val # NoValue
  PROVE  LET q == ParseOption(p, o)
         IN /\ q \in Parses(K, V)
            /\ q.keys = p.keys \cup {o.key} /\ q.ro = p.ro
            /\ \A k \in Numbers : q.num[k] = IF k = o.key THEN o.val ELSE p.num[k]
            /\ q.refused <=> o.key \in Numbers /\ o.val = NotNumber
<1> DEFINE q == ParseValue(p, o)
           a == p.keys \cup {o.key}
           b == o.key \in Numbers /\ o.val = NotNumber
           c == [k \in Numbers |-> IF k = o.key THEN o.val ELSE p.num[k]]
<1>1. ParseOption(p, o) = q
  BY DEF ParseOption
<1>2. q = [p EXCEPT !.keys = a, !.refused = b, !.num = c]
  BY Zenon DEF ParseValue
<1>3. a \in SUBSET K /\ c \in [Numbers -> V]
  BY DEF Parses
<1>4. b \in BOOLEAN
  BY Zenon
<1>5. \A k \in Numbers : c[k] = IF k = o.key THEN o.val ELSE p.num[k]
  OBVIOUS
<1> HIDE DEF q, a, b, c
<1>6. q.keys = a /\ q.ro = p.ro /\ q.refused = b /\ q.num = c /\ q \in Parses(K, V)
  BY <1>2, <1>3, <1>4 DEF Parses
<1>7. q.refused <=> o.key \in Numbers /\ o.val = NotNumber
  BY <1>6, Zenon DEF b
<1> QED
  BY <1>1, <1>5, <1>6, <1>7 DEF a

\* What the parser knows of the first n options.
KnownOf(s, n, p) ==
  /\ p.keys = {s[i].key : i \in 1..n}
  /\ p.ro => "ro" \in p.keys
  /\ \A i \in 1..n : s[i].key \in Numbers /\ s[i].val # NoValue =>
       /\ s[i].val # NotNumber
       /\ (\A j \in (i + 1)..n : s[j].key # s[i].key) => p.num[s[i].key] = s[i].val
  /\ \A k \in Numbers : p.num[k] # NoValue =>
       \E i \in 1..n : s[i].key = k /\ s[i].val = p.num[k] /\ s[i].val # NoValue

WhyRefused(s, n) ==
  \/ \E i \in 1..n : s[i].key \in Numbers /\ s[i].val = NotNumber
  \/ \E i, j \in 1..n : s[i].key = "ro" /\ s[j].key = "rw"

ReadSoFar(s, n, K, V) ==
  LET p == ParsedAfter(s)[n]
  IN /\ p \in Parses(K, V)
     /\ ~p.refused => KnownOf(s, n, p)
     /\ p.refused => WhyRefused(s, n)

LEMMA ParsingBegins ==
  ASSUME NEW s, Len(s) \in Nat, NEW K, NEW V, NoValue \in V
  PROVE  ReadSoFar(s, 0, K, V)
<1>1. ParsedAfter(s)[0] = Parsing
  BY ParsedStepwise
<1>2. Parsing \in Parses(K, V) /\ ~Parsing.refused
  BY DEF Parsing, Parses
<1>3. KnownOf(s, 0, Parsing)
  BY DEF Parsing, KnownOf
<1> QED
  BY <1>1, <1>2, <1>3 DEF ReadSoFar

LEMMA ParsingGoesOn ==
  ASSUME NEW s, Len(s) \in Nat, NEW n \in 1..Len(s), NEW K, NEW V, NoValue \in V,
         \A i \in 1..Len(s) : s[i].key \in K /\ s[i].val \in V,
         ReadSoFar(s, n - 1, K, V)
  PROVE  ReadSoFar(s, n, K, V)
<1> DEFINE p == ParsedAfter(s)[n - 1]
           q == ParseOption(p, s[n])
<1>1. ParsedAfter(s)[n] = q
  BY ParsedStepwise
<1>2. /\ p \in Parses(K, V)
      /\ ~p.refused => KnownOf(s, n - 1, p)
      /\ p.refused => WhyRefused(s, n - 1)
  BY DEF ReadSoFar
<1> HIDE DEF p
<1>n. n \in Nat /\ n - 1 \in Nat /\ n \in 1..n /\ \A i : i \in 1..n <=> i \in 1..(n - 1) \/ i = n
  OBVIOUS
<1>3. CASE p.refused
  <2>1. q = p
    BY <1>3 DEF ParseOption
  <2>2. WhyRefused(s, n)
    BY <1>2, <1>3, <1>n DEF WhyRefused
  <2> HIDE DEF q
  <2> QED
    BY <1>1, <1>2, <1>3, <2>1, <2>2 DEF ReadSoFar
<1>4. CASE ~p.refused /\ s[n].val = NoValue
  <2>1. /\ q \in Parses(K, V)
        /\ q.keys = p.keys \cup {s[n].key} /\ q.num = p.num
        /\ q.ro => p.ro \/ s[n].key = "ro"
        /\ q.refused => "ro" \in q.keys /\ "rw" \in q.keys
    BY <1>2, <1>4, FlagParsed
  <2> HIDE DEF q
  <2>2. q.keys = {s[i].key : i \in 1..n}
    BY <2>1, <1>2, <1>4, <1>n DEF KnownOf
  <2>3. q.refused => WhyRefused(s, n)
    BY <2>1, <2>2 DEF WhyRefused
  <2>4. q.ro => "ro" \in q.keys
    BY <2>1, <1>2, <1>4 DEF KnownOf
  <2>5. ASSUME NEW i \in 1..n, s[i].key \in Numbers, s[i].val # NoValue
        PROVE  /\ s[i].val # NotNumber
               /\ (\A j \in (i + 1)..n : s[j].key # s[i].key) => q.num[s[i].key] = s[i].val
    <3>1. i \in 1..(n - 1)
      BY <2>5, <1>4
    <3>2. \A j : j \in (i + 1)..(n - 1) => j \in (i + 1)..n
      BY <1>n
    <3> QED
      BY <3>1, <3>2, <2>5, <2>1, <1>2, <1>4 DEF KnownOf
  <2>6. \A k \in Numbers : q.num[k] # NoValue =>
          \E i \in 1..n : s[i].key = k /\ s[i].val = q.num[k] /\ s[i].val # NoValue
    BY <2>1, <1>2, <1>4, <1>n DEF KnownOf
  <2>7. KnownOf(s, n, q)
    BY <2>2, <2>4, <2>5, <2>6 DEF KnownOf
  <2> QED
    BY <1>1, <2>1, <2>3, <2>7 DEF ReadSoFar
<1>5. CASE ~p.refused /\ s[n].val # NoValue
  <2>1. /\ q \in Parses(K, V)
        /\ q.keys = p.keys \cup {s[n].key} /\ q.ro = p.ro
        /\ \A k \in Numbers : q.num[k] = IF k = s[n].key THEN s[n].val ELSE p.num[k]
        /\ q.refused <=> s[n].key \in Numbers /\ s[n].val = NotNumber
    BY <1>2, <1>5, ValueParsed
  <2> HIDE DEF q
  <2>2. q.keys = {s[i].key : i \in 1..n}
    BY <2>1, <1>2, <1>5, <1>n DEF KnownOf
  <2>3. q.refused => WhyRefused(s, n)
    BY <2>1, <1>n DEF WhyRefused
  <2>4. q.ro => "ro" \in q.keys
    BY <2>1, <1>2, <1>5 DEF KnownOf
  <2>5. ASSUME ~q.refused, NEW i \in 1..n, s[i].key \in Numbers, s[i].val # NoValue
        PROVE  /\ s[i].val # NotNumber
               /\ (\A j \in (i + 1)..n : s[j].key # s[i].key) => q.num[s[i].key] = s[i].val
    <3>1. CASE i = n
      BY <3>1, <2>5, <2>1
    <3>2. CASE i # n
      <4>1. i \in 1..(n - 1) /\ n \in (i + 1)..n
        BY <3>2, <1>n
      <4>2. \A j : j \in (i + 1)..(n - 1) => j \in (i + 1)..n
        BY <1>n
      <4>3. s[i].val # NotNumber
            /\ ((\A j \in (i + 1)..(n - 1) : s[j].key # s[i].key) => p.num[s[i].key] = s[i].val)
        BY <4>1, <2>5, <1>2, <1>5 DEF KnownOf
      <4>4. ASSUME \A j \in (i + 1)..n : s[j].key # s[i].key PROVE q.num[s[i].key] = s[i].val
        <5>1. s[n].key # s[i].key
          BY <4>1, <4>4
        <5>2. p.num[s[i].key] = s[i].val
          BY <4>2, <4>3, <4>4
        <5> QED
          BY <5>1, <5>2, <2>1, <2>5
      <4> QED
        BY <4>3, <4>4
    <3> QED
      BY <3>1, <3>2
  <2>6. \A k \in Numbers : q.num[k] # NoValue =>
          \E i \in 1..n : s[i].key = k /\ s[i].val = q.num[k] /\ s[i].val # NoValue
    <3> TAKE k \in Numbers
    <3>1. CASE k = s[n].key
      BY <3>1, <2>1, <1>n, <1>5
    <3>2. CASE k # s[n].key
      BY <3>2, <2>1, <1>2, <1>5, <1>n DEF KnownOf
    <3> QED
      BY <3>1, <3>2
  <2>7. ~q.refused => KnownOf(s, n, q)
    BY <2>2, <2>4, <2>5, <2>6 DEF KnownOf
  <2> QED
    BY <1>1, <2>1, <2>3, <2>7 DEF ReadSoFar
<1> QED
  BY <1>3, <1>4, <1>5

LEMMA ParsingEnds ==
  ASSUME NEW s, Len(s) \in Nat, NEW K, NEW V, NoValue \in V,
         \A i \in 1..Len(s) : s[i].key \in K /\ s[i].val \in V
  PROVE  ReadSoFar(s, Len(s), K, V)
<1> DEFINE Bad == {n \in Nat : n <= Len(s) /\ ~ReadSoFar(s, n, K, V)}
<1>1. Bad = {}
  <2> SUFFICES ASSUME Bad # {} PROVE FALSE
    OBVIOUS
  <2>1. PICK n \in Bad : \A c \in Bad : n <= c
    <3>1. Bad \subseteq Nat
      OBVIOUS
    <3> HIDE DEF Bad
    <3> QED
      BY <3>1, LeastNumber
  <2>2. n \in Nat /\ n <= Len(s) /\ ~ReadSoFar(s, n, K, V)
    BY <2>1
  <2>3. n # 0
    BY <2>2, ParsingBegins
  <2>4. n \in 1..Len(s) /\ n - 1 \in Nat /\ n - 1 <= Len(s) /\ n - 1 \notin Bad
    <3> HIDE DEF Bad
    <3> QED
      BY <2>1, <2>2, <2>3
  <2>5. ReadSoFar(s, n - 1, K, V)
    BY <2>4
  <2> QED
    BY <2>2, <2>4, <2>5, ParsingGoesOn
<1> QED
  BY <1>1

\* What was given is within the limits the parser checks.
InLimits(p) ==
  /\ "nfsvers" \in p.keys => Within(p.num["nfsvers"], 3, 4)
  /\ "rsize" \in p.keys => Within(p.num["rsize"], 1024, 104857600)
  /\ "wsize" \in p.keys => Within(p.num["wsize"], 1024, 104857600)
  /\ "timeo" \in p.keys => Within(p.num["timeo"], 1, 3600)

LEMMA DefaultsWithin ==
  /\ Within(NoValue, 3, 4) /\ Within(1048576, 1024, 104857600) /\ Within(600, 1, 3600)
  /\ Within(50, 1, 3600) /\ Within(NoValue, 1024, 104857600) /\ Within(NoValue, 1, 3600)
  /\ \A v : Within(v, 1, 3600) => v # 0
<1>1. /\ Within(NoValue, 3, 4) /\ Within(1048576, 1024, 104857600) /\ Within(600, 1, 3600)
      /\ Within(50, 1, 3600) /\ Within(NoValue, 1024, 104857600) /\ Within(NoValue, 1, 3600)
  <2>1. ASSUME NEW v \in Int, NEW a \in Int, NEW b \in Int, a <= v, v <= b PROVE Within(v, a, b)
    BY <2>1 DEF Within
  <2>2. ASSUME NEW a, NEW b PROVE Within(NoValue, a, b)
    BY Zenon DEF Within
  <2> QED
    BY <2>1, <2>2, SMT
<1>2. ASSUME NEW v, Within(v, 1, 3600) PROVE v # 0
  <2>1. v = -1 \/ v \in 1..3600
    BY <1>2 DEF Within, NoValue
  <2>2. CASE v = -1
    BY <2>2
  <2>3. CASE v \in 1..3600
    BY <2>3
  <2> QED
    BY <2>1, <2>2, <2>3
<1> QED
  BY <1>1, <1>2, SMT

LEMMA DefaultsApplied ==
  ASSUME NEW K, NEW V, NEW p \in Parses(K, V)
  PROVE  LET q == ApplyDefaults(p, "nfs")
         IN /\ q.keys = p.keys /\ (q.ro <=> p.ro)
            /\ \A k \in Numbers : k \in p.keys => q.num[k] = p.num[k]
            /\ "nfsvers" \notin p.keys => q.num["nfsvers"] = NoValue
            /\ "rsize" \notin p.keys => q.num["rsize"] = 1048576
            /\ "wsize" \notin p.keys => q.num["wsize"] = 1048576
            /\ "timeo" \notin p.keys => q.num["timeo"] = 600
<1> DEFINE q == ApplyDefaults(p, "nfs")
           c == [k \in Numbers |->
                   IF k \in p.keys THEN p.num[k]
                   ELSE CASE k \in {"rsize", "wsize"} -> 1048576
                          [] k = "timeo" -> 600
                          [] k = "retrans" -> 2
                          [] OTHER -> NoValue]
<1>1. q = [p EXCEPT !.num = c]
  BY DEF ApplyDefaults
<1>2. {"nfsvers", "rsize", "wsize", "timeo"} \subseteq Numbers
  BY DEF Numbers
<1>3. /\ \A k \in Numbers : k \in p.keys => c[k] = p.num[k]
      /\ "nfsvers" \notin p.keys => c["nfsvers"] = NoValue
      /\ "rsize" \notin p.keys => c["rsize"] = 1048576
      /\ "wsize" \notin p.keys => c["wsize"] = 1048576
      /\ "timeo" \notin p.keys => c["timeo"] = 600
  BY <1>2, SMT
<1> HIDE DEF q, c
<1>4. q.keys = p.keys /\ (q.ro <=> p.ro) /\ q.num = c
  BY <1>1 DEF Parses
<1> QED
  BY <1>3, <1>4, SMT DEF q

\* What parses is accepted when neither word of a contradiction came with the other,
\* and what was given is within the limits.
LEMMA AcceptedMeans ==
  ASSUME NEW K, NEW V, NEW s, NEW p \in Parses(K, V), p = ParsedAfter(s)[Len(s)]
  PROVE  /\ ParserAccepts(s, "nfs") => ~p.refused /\ InLimits(p)
         /\ /\ ~p.refused /\ InLimits(p)
            /\ ~(p.ro /\ "rw" \in p.keys)
            => ParserAccepts(s, "nfs")
<1> DEFINE q == ApplyDefaults(p, "nfs")
           ks == {"nfsvers", "rsize", "wsize", "timeo"}
<1>1. ParserAccepts(s, "nfs") <=> ~p.refused /\ ParserValidates(q, "nfs")
  BY DEF ParserAccepts
<1>2. /\ q.keys = p.keys /\ (q.ro <=> p.ro)
      /\ \A k \in Numbers : k \in p.keys => q.num[k] = p.num[k]
      /\ "nfsvers" \notin p.keys => q.num["nfsvers"] = NoValue
      /\ "rsize" \notin p.keys => q.num["rsize"] = 1048576
      /\ "wsize" \notin p.keys => q.num["wsize"] = 1048576
      /\ "timeo" \notin p.keys => q.num["timeo"] = 600
  BY DefaultsApplied, SMT
<1>3. ks \subseteq Numbers
  BY DEF Numbers
<1> HIDE DEF q
<1>4. ASSUME ParserValidates(q, "nfs") PROVE InLimits(p)
  <2>1. /\ Within(q.num["nfsvers"], 3, 4) /\ Within(q.num["rsize"], 1024, 104857600)
        /\ Within(q.num["wsize"], 1024, 104857600) /\ Within(q.num["timeo"], 1, 3600)
    BY <1>4, SMT DEF ParserValidates
  <2> QED
    BY <2>1, <1>2, <1>3, SMT DEF InLimits
<1>5. ASSUME InLimits(p), ~(p.ro /\ "rw" \in p.keys) PROVE ParserValidates(q, "nfs")
  <2>1. /\ Within(q.num["nfsvers"], 3, 4) /\ Within(q.num["rsize"], 1024, 104857600)
        /\ Within(q.num["wsize"], 1024, 104857600) /\ Within(q.num["timeo"], 1, 3600)
    BY <1>2, <1>3, <1>5, DefaultsWithin, SMT DEF InLimits
  <2>2. q.num["timeo"] # 0
    BY <2>1, DefaultsWithin, SMT
  <2>3. ~(q.ro /\ "rw" \in q.keys)
    BY <1>2, <1>5, SMT
  <2> QED
    BY <2>1, <2>2, <2>3, SMT DEF ParserValidates
<1> QED
  BY <1>1, <1>4, <1>5

\* What the parser accepts of a request it accepts of the list the driver makes of it.
LEMMA ParserFollows ==
  ASSUME NEW T, NEW given \in Seq(T), NfsDefaults \in Seq(T), ParserAccepts(given, "nfs")
  PROVE  ParserAccepts(NfsOptions(given), "nfs")
<1> DEFINE opts == NfsOptions(given)
           all == NfsDefaults \o given
           K == {o.key : o \in T}
           V == {o.val : o \in T} \cup {NoValue}
           p == ParsedAfter(given)[Len(given)]
           q == ParsedAfter(opts)[Len(opts)]
<1>1. opts \in Seq(T) /\ InOrder(opts, all, Standing(all, 5 + Len(given)))
  BY MergedStands
<1>2. /\ Len(given) \in Nat
      /\ \A i \in 1..5 : all[i] = NfsDefaults[i]
      /\ \A n \in 1..Len(given) : all[5 + n] = given[n]
  <2>1. Len(given) \in Nat
    OBVIOUS
  <2> QED
    BY <2>1, DefaultsFirst
<1> HIDE DEF opts, all
<1>3. NoValue \in V /\ \A o \in T : o.key \in K /\ o.val \in V
  OBVIOUS
<1>4. /\ Len(opts) \in Nat
      /\ \A i \in 1..Len(given) : given[i] \in T
      /\ \A i \in 1..Len(opts) : opts[i] \in T
  BY <1>1
<1> HIDE DEF K, V
<1>5. ReadSoFar(given, Len(given), K, V) /\ ReadSoFar(opts, Len(opts), K, V)
  BY <1>2, <1>3, <1>4, ParsingEnds
<1>6. /\ p \in Parses(K, V) /\ q \in Parses(K, V)
      /\ ~p.refused => KnownOf(given, Len(given), p)
      /\ ~q.refused => KnownOf(opts, Len(opts), q)
      /\ q.refused => WhyRefused(opts, Len(opts))
  BY <1>5 DEF ReadSoFar
<1>7. ~p.refused /\ InLimits(p)
  BY <1>6, AcceptedMeans
<1>8. \A m, n \in 1..Len(opts) : m # n =>
         opts[m].key # opts[n].key /\ ~(opts[m].key = "ro" /\ opts[n].key = "rw")
  <2> DEFINE ss == Standing(all, 5 + Len(given))
  <2>1. PICK f \in [1..Len(opts) -> ss] :
           /\ \A m, n \in 1..Len(opts) : m < n => f[m] < f[n]
           /\ \A m \in 1..Len(opts) : opts[m] = all[f[m]]
    BY <1>1 DEF InOrder
  <2>2. \A i, j \in ss : i < j => ~Overrides(all[j], all[i])
    BY <1>2 DEF Standing
  <2>3. \A m, n \in 1..Len(opts) : m < n => ~Overrides(opts[n], opts[m])
    BY <2>1, <2>2
  <2>4. Conflicting("ro", "rw") /\ Conflicting("rw", "ro")
    BY DEF Conflicting, ConflictPairs
  <2>5. \A m, n \in 1..Len(opts) : m < n =>
           /\ opts[m].key # opts[n].key /\ ~(opts[m].key = "ro" /\ opts[n].key = "rw")
           /\ ~(opts[n].key = "ro" /\ opts[m].key = "rw")
    BY <2>3, <2>4 DEF Overrides
  <2>6. \A m, n \in 1..Len(opts) : m # n => m < n \/ n < m
    BY <1>4
  <2> QED
    BY <2>5, <2>6
<1>9. ASSUME NEW m \in 1..Len(opts)
      PROVE  \/ \E d \in 1..5 : opts[m] = NfsDefaults[d]
             \/ \E i \in 1..Len(given) :
                   opts[m] = given[i] /\ \A j \in (i + 1)..Len(given) : given[j].key # given[i].key
  <2> DEFINE ss == Standing(all, 5 + Len(given))
  <2>1. PICK k \in ss : opts[m] = all[k]
    BY <1>1 DEF InOrder
  <2>2. k \in 1..(5 + Len(given)) /\ \A j \in (k + 1)..(5 + Len(given)) : ~Overrides(all[j], all[k])
    BY <2>1 DEF Standing
  <2>3. CASE k <= 5
    <3>1. k \in 1..5
      BY <2>2, <2>3
    <3> QED
      BY <3>1, <2>1, <1>2
  <2>4. CASE k > 5
    <3> DEFINE i == k - 5
    <3>1. i \in 1..Len(given) /\ k = 5 + i
      BY <2>2, <2>4, <1>2
    <3>2. opts[m] = given[i] /\ all[k] = given[i]
      BY <3>1, <2>1, <1>2
    <3> HIDE DEF i
    <3>3. ASSUME NEW j \in (i + 1)..Len(given) PROVE given[j].key # given[i].key
      <4>1. j \in 1..Len(given) /\ 5 + j \in (k + 1)..(5 + Len(given))
        BY <3>1, <1>2
      <4>2. all[5 + j] = given[j]
        BY <4>1, <1>2
      <4> QED
        BY <4>1, <4>2, <3>2, <2>2 DEF Overrides
    <3> QED
      BY <3>1, <3>2, <3>3
  <2> QED
    BY <2>2, <2>3, <2>4, <1>2
<1>10. \A d \in 1..5 : /\ NfsDefaults[d].val # NotNumber
                       /\ NfsDefaults[d].val # NoValue =>
                            NfsDefaults[d].key \in {"timeo", "retrans"}
                       /\ NfsDefaults[d].key = "timeo" => NfsDefaults[d].val = 50
                       /\ NfsDefaults[d].key \notin {"ro", "rw"}
  BY DEF NfsDefaults, Flag, Valued, NoValue, NotNumber
<1>11. KnownOf(given, Len(given), p)
  BY <1>6, <1>7
<1> HIDE DEF p, q
<1>12. ASSUME NEW m \in 1..Len(opts), opts[m].key \in Numbers, opts[m].val # NoValue
       PROVE  opts[m].val # NotNumber
  <2>1. ASSUME NEW d \in 1..5, opts[m] = NfsDefaults[d] PROVE opts[m].val # NotNumber
    BY <2>1, <1>10
  <2>2. ASSUME NEW i \in 1..Len(given), opts[m] = given[i] PROVE opts[m].val # NotNumber
    BY <2>2, <1>11, <1>12 DEF KnownOf
  <2> QED
    BY <2>1, <2>2, <1>9
<1>13. ~q.refused
  <2>1. ~WhyRefused(opts, Len(opts))
    BY <1>8, <1>12 DEF WhyRefused, NoValue, NotNumber
  <2> QED
    BY <2>1, <1>6
<1>14. KnownOf(opts, Len(opts), q)
  BY <1>6, <1>13
<1>15. ~(q.ro /\ "rw" \in q.keys)
  <2> SUFFICES ASSUME q.ro, "rw" \in q.keys PROVE FALSE
    OBVIOUS
  <2>1. "ro" \in q.keys
    BY <1>14 DEF KnownOf
  <2>2. PICK m \in 1..Len(opts), n \in 1..Len(opts) : opts[m].key = "ro" /\ opts[n].key = "rw"
    BY <2>1, <1>14 DEF KnownOf
  <2> QED
    BY <2>2, <1>8
<1>16. ASSUME NEW k \in Numbers, k \in q.keys
       PROVE  \/ q.num[k] = NoValue
              \/ k \in {"timeo", "retrans"} /\ (k = "timeo" => q.num[k] = 50)
              \/ k \in p.keys /\ q.num[k] = p.num[k]
  <2> SUFFICES ASSUME q.num[k] # NoValue
               PROVE  \/ k \in {"timeo", "retrans"} /\ (k = "timeo" => q.num[k] = 50)
                      \/ k \in p.keys /\ q.num[k] = p.num[k]
    OBVIOUS
  <2>1. PICK m \in 1..Len(opts) : opts[m].key = k /\ opts[m].val = q.num[k] /\ opts[m].val # NoValue
    BY <1>14 DEF KnownOf
  <2>2. ASSUME NEW d \in 1..5, opts[m] = NfsDefaults[d]
        PROVE  k \in {"timeo", "retrans"} /\ (k = "timeo" => q.num[k] = 50)
    BY <2>1, <2>2, <1>10
  <2>3. ASSUME NEW i \in 1..Len(given), opts[m] = given[i],
               \A j \in (i + 1)..Len(given) : given[j].key # given[i].key
        PROVE  k \in p.keys /\ q.num[k] = p.num[k]
    <3>1. given[i].key = k /\ given[i].val = q.num[k] /\ given[i].val # NoValue
      BY <2>1, <2>3
    <3> QED
      BY <3>1, <2>3, <1>16, <1>11 DEF KnownOf
  <2> QED
    BY <2>2, <2>3, <1>9
<1>17. InLimits(q)
  <2>1. {"nfsvers", "rsize", "wsize", "timeo"} \subseteq Numbers
    BY DEF Numbers
  <2> QED
    BY <2>1, <1>16, <1>7, DefaultsWithin, SMT DEF InLimits
<1> QED
  BY <1>6, <1>13, <1>15, <1>17, AcceptedMeans DEF q, opts

\* From BuildCommand on, the list is the one the driver makes of the request.
BuiltFromRequest ==
  /\ step \in {"asked", "checked", "built", "running"} => request \in Requests
  /\ step \in {"built", "running"} => list = DriverOptions(request)

LEMMA BuiltStep ==
  ASSUME BuiltFromRequest, [MountCommandNext]_MountCommandVars
  PROVE  BuiltFromRequest'
<1>1. ASSUME NEW r \in Requests, Ask(r) PROVE BuiltFromRequest'
  BY <1>1 DEF Ask, BuiltFromRequest
<1>2. ASSUME NEW there \in BOOLEAN, CheckDependency(there) PROVE BuiltFromRequest'
  BY <1>2 DEF CheckDependency, BuiltFromRequest
<1>3. ASSUME BuildCommand PROVE BuiltFromRequest'
  <2>1. request' = request /\ request \in Requests
    BY <1>3 DEF BuildCommand, BuiltFromRequest
  <2>2. CASE CommandAllowed(request, DriverOptions(request))
    <3>1. list' = DriverOptions(request) /\ step' = "built"
      BY <1>3, <2>2 DEF BuildCommand
    <3> QED
      BY <2>1, <3>1 DEF BuiltFromRequest
  <2>3. CASE ~CommandAllowed(request, DriverOptions(request))
    <3>1. step' = "refused"
      BY <1>3, <2>3 DEF BuildCommand
    <3> QED
      BY <3>1 DEF BuiltFromRequest
  <2> QED
    BY <2>2, <2>3
<1>4. ASSUME RunCommand PROVE BuiltFromRequest'
  <2>1. request' = request /\ list' = list /\ step = "built" /\ step' \in {"running", "profile"}
    BY <1>4 DEF RunCommand
  <2> QED
    BY <2>1 DEF BuiltFromRequest
<1>5. ASSUME CommandSucceeds \/ \E timedOut \in BOOLEAN : CommandFails(timedOut)
      PROVE  BuiltFromRequest'
  BY <1>5 DEF CommandSucceeds, CommandFails, BuiltFromRequest
<1>6. ASSUME NEW t \in Targets, NEW ok \in BOOLEAN, LateCommandEnds(t, ok) \/ UnmountTarget(t, ok)
      PROVE  BuiltFromRequest'
  BY <1>6 DEF LateCommandEnds, UnmountTarget, BuiltFromRequest
<1>7. ASSUME AnswerMount \/ ProcessRestarts PROVE BuiltFromRequest'
  BY <1>7 DEF AnswerMount, ProcessRestarts, BuiltFromRequest
<1>8. CASE UNCHANGED MountCommandVars
  BY <1>8 DEF MountCommandVars, BuiltFromRequest
<1> QED
  BY <1>1, <1>2, <1>3, <1>4, <1>5, <1>6, <1>7, <1>8 DEF MountCommandNext

\* What such a list says, for any list of options.
LEMMA LastWordOfList ==
  ASSUME NEW T, NEW given \in Seq(T), NfsDefaults \in Seq(T)
  PROVE  LastWord(given, NfsOptions(given))
<1> DEFINE all == NfsDefaults \o given
           enduring == {i \in DOMAIN all :
                        \A j \in (i + 1)..Len(all) : ~Overrides(all[j], all[i])}
           l == NfsOptions(given)
<1>1. Len(all) = 5 + Len(given) /\ DOMAIN all = 1..Len(all)
  BY DefaultsFirst
<1>2. l \in Seq(T) /\ InOrder(l, all, Standing(all, 5 + Len(given)))
  BY MergedStands
<1> HIDE DEF all, l
<1>3. enduring = Standing(all, 5 + Len(given))
  BY <1>1, Zenon DEF Standing
<1>4. DOMAIN l = 1..Len(l)
  BY <1>2
<1> HIDE DEF enduring
<1>5. PICK f \in [1..Len(l) -> enduring] :
         /\ \A m, n \in 1..Len(l) : m < n => f[m] < f[n]
         /\ \A i \in enduring : \E m \in 1..Len(l) : f[m] = i
         /\ \A m \in 1..Len(l) : l[m] = all[f[m]]
  BY <1>2, <1>3 DEF InOrder
<1>6. \A i \in enduring : \E m \in DOMAIN l : l[m] = all[i]
  BY <1>4, <1>5
<1>7. \A m \in DOMAIN l : \E i \in enduring : l[m] = all[i]
  BY <1>4, <1>5
<1>8. \A m, n \in DOMAIN l : m < n =>
         \E i, j \in enduring : i < j /\ l[m] = all[i] /\ l[n] = all[j]
  BY <1>4, <1>5
<1>9. ParserAccepts(given, "nfs") => ParserAccepts(l, "nfs")
  BY ParserFollows DEF l
<1> QED
  BY <1>6, <1>7, <1>8, <1>9, Zenon DEF all, enduring, l, LastWord

\* For any keys a request may use and any number of its options: the options an NFS
\* command runs with are those of the defaults and the request no later one overrides,
\* in their order, and what the parser accepted of the request it accepts of them
\* (nfs.rs:163-186, mount/options.rs).
THEOREM LastWordHolds == MountCommandSpec => []LastWordStands
<1>1. MountCommandInit => BuiltFromRequest
  BY DEF MountCommandInit, BuiltFromRequest
<1>2. BuiltFromRequest /\ [MountCommandNext]_MountCommandVars => BuiltFromRequest'
  BY BuiltStep
<1>3. BuiltFromRequest => LastWordStands
  <2> SUFFICES ASSUME BuiltFromRequest, step = "running", request.kind = "nfs"
               PROVE  LastWordStands
    BY DEF LastWordStands
  <2> DEFINE T == Options \cup {Flag("nolock"), Valued("timeo", 50), Valued("retrans", 2),
                                Flag("soft"), Flag("_netdev")}
             given == request.given
  <2>1. request \in Requests /\ list = DriverOptions(request)
    BY DEF BuiltFromRequest
  <2>2. list = NfsOptions(given)
    BY <2>1 DEF DriverOptions
  <2>3. given \in Seq(Options)
    <3>1. given \in SeqOf(Options, MaxGiven)
      BY <2>1 DEF Requests
    <3>2. PICK m \in 0..MaxGiven : given \in [1..m -> Options]
      BY <3>1 DEF SeqOf
    <3> QED
      BY <3>2
  <2>4. Options \subseteq T /\ given \in Seq(T)
    BY <2>3
  <2>5. NfsDefaults \in Seq(T)
    BY DefaultsAgree
  <2> HIDE DEF T
  <2> QED
    BY <2>2, <2>4, <2>5, LastWordOfList DEF LastWordStands
<1> QED
  BY <1>1, <1>2, <1>3, PTL DEF MountCommandSpec

-----------------------------------------------------------------------------
(* The types of the parts, and the resource monitors.                            *)

\* A finite set of naturals has a greatest element.
LEMMA MaxOf ==
  ASSUME NEW S, S \subseteq Nat, S # {}, IsFiniteSet(S)
  PROVE  Max(S) \in S /\ \A c \in S : c <= Max(S)
<1> DEFINE f == [i \in S |-> i]
<1>1. \E i \in S : \A j \in S : f[j] <= f[i]
  <2>1. f \in [S -> Nat]
    OBVIOUS
  <2> HIDE DEF f
  <2> QED
    BY <2>1, GreatestOf
<1>2. \E i \in S : \A j \in S : i >= j
  BY <1>1
<1> QED
  BY <1>2 DEF Max

\* The settings of a merge are some member's, or the defaults.
LEMMA SettingsOf ==
  ASSUME NEW order, Ordering(order)
  PROVE  MergeSettings(order) \in Members \cup {Defaults}
<1> DEFINE last(k) == inputs[order[k]].last
           takers == {k \in DOMAIN order :
                        last(k) > 0 /\ \A j \in 1..(k - 1) : last(j) < last(k)}
<1>1. Cardinality(Members) \in Nat /\ DOMAIN order = 1..Cardinality(Members)
  BY MergeAssumption, FS_CardinalityType DEF Ordering
<1>2. MergeSettings(order) = IF takers = {} THEN Defaults ELSE order[Max(takers)]
  BY DEF MergeSettings
<1>3. takers \subseteq DOMAIN order
  OBVIOUS
<1> HIDE DEF takers
<1>4. CASE takers # {}
  <2>1. IsFiniteSet(1..Cardinality(Members))
    BY <1>1, FS_Interval
  <2>2. IsFiniteSet(takers) /\ takers \subseteq Nat
    BY <1>1, <1>3, <2>1, FS_Subset
  <2>3. Max(takers) \in DOMAIN order
    BY <1>3, <1>4, <2>2, MaxOf
  <2> QED
    BY <1>2, <1>4, <2>3 DEF Ordering
<1> QED
  BY <1>2, <1>4

LEMMA LatestSyncOf ==
  ASSUME inputs \in [Members -> Configuration]
  PROVE  LatestSync \in 0..MaxSync
<1> DEFINE S == {0} \cup {inputs[i].sync : i \in Members}
<1>1. S \subseteq 0..MaxSync /\ S # {} /\ MaxSync \in Nat
  BY MergeAssumption DEF Configuration
<1>2. LatestSync = Max(S)
  BY DEF LatestSync
<1> HIDE DEF S
<1>3. IsFiniteSet(0..MaxSync)
  BY <1>1, FS_Interval
<1>4. IsFiniteSet(S) /\ S \subseteq Nat
  <2>1. S \in SUBSET (0..MaxSync)
    BY <1>1
  <2>2. IsFiniteSet(S)
    BY <1>3, <2>1, FS_Subset
  <2> QED
    BY <2>1, <2>2
<1> QED
  BY <1>1, <1>2, <1>4, MaxOf

LEMMA MergeTypesHold == MergeSpec => []MergeTypeOK
<1>0. Absent \in Version /\ MaxSync \in Nat /\ Members \subseteq Nat
  BY MergeAssumption DEF Version
<1>1. MergeInit => MergeTypeOK
  BY <1>0 DEF MergeInit, MergeTypeOK, NotMerged
<1>2. MergeTypeOK /\ [MergeNext]_MergeVars => MergeTypeOK'
  <2> SUFFICES ASSUME MergeTypeOK, [MergeNext]_MergeVars PROVE MergeTypeOK'
    OBVIOUS
  <2>1. CASE UNCHANGED MergeVars
    BY <2>1 DEF MergeVars, MergeTypeOK
  <2>2. CASE MergeConfigs
    <3>1. PICK order \in [1..Cardinality(Members) -> Members] :
            /\ \A i \in Members : \E k \in DOMAIN order : order[k] = i
            /\ merged' = [mounts |-> [m \in MergeMounts |-> ResolveMount(m, order)],
                          sync |-> LatestSync + 1, announced |-> LatestSync + 2,
                          settings |-> MergeSettings(order)]
            /\ conflicts' = ConflictsOf(order)
      BY <2>2 DEF MergeConfigs
    <3>2. inputs' = inputs /\ Ordering(order) /\ inputs \in [Members -> Configuration]
      BY <2>2, <3>1 DEF MergeConfigs, MergeTypeOK, Ordering
    <3>3. ASSUME NEW m \in MergeMounts, HadBy(m) # {}
          PROVE  /\ Holders(m) \in SUBSET Members
                 /\ Winner(m) \in Members /\ inputs[Winner(m)].mounts[m] \in Version
                 /\ inputs[Chosen(m, order)].mounts[m] = inputs[Winner(m)].mounts[m]
                 /\ Disputed(m, order) => Chosen(m, order) = Winner(m)
      <4>1. Holders(m) \subseteq Members /\ Winner(m) \in Holders(m)
        BY <3>2, <3>3, LatestHolds, WinnerHolds
      <4>2. inputs[Winner(m)] \in Configuration
        BY <3>2, <4>1
      <4>3. inputs[Winner(m)].mounts[m] \in Version
        BY <4>2 DEF Configuration
      <4> QED
        BY <3>2, <3>3, <4>1, <4>3, ChosenIsWinner
    <3>4. \A m \in MergeMounts : ResolveMount(m, order) \in Version
      BY <1>0, <3>3 DEF ResolveMount
    <3>5. LatestSync \in 0..MaxSync /\ MergeSettings(order) \in Members \cup {Defaults}
      BY <3>2, LatestSyncOf, SettingsOf
    <3>6. merged' \in [mounts: [MergeMounts -> Version], sync: 0..(MaxSync + 1),
                       announced: 0..(MaxSync + 2), settings: Members \cup {Defaults}]
      BY <1>0, <3>1, <3>4, <3>5
    <3>7. conflicts' \in SUBSET [mount: MergeMounts, members: SUBSET Members, used: Members]
      <4> SUFFICES ASSUME NEW c \in conflicts'
                   PROVE  c \in [mount: MergeMounts, members: SUBSET Members, used: Members]
        OBVIOUS
      <4>1. PICK m \in MergeMounts :
              /\ HadBy(m) # {} /\ Disputed(m, order)
              /\ c = [mount |-> m, members |-> Holders(m), used |-> Chosen(m, order)]
        BY <3>1 DEF ConflictsOf
      <4>2. Holders(m) \in SUBSET Members /\ Chosen(m, order) \in Members
        BY <3>3, <4>1
      <4> QED
        BY <4>1, <4>2
    <3>8. inputs' \in [Members -> Configuration]
      BY <3>2
    <3> QED
      BY <3>6, <3>7, <3>8 DEF MergeTypeOK, Configuration, Version
  <2> QED
    BY <2>1, <2>2 DEF MergeNext
<1> QED
  BY <1>1, <1>2, PTL DEF MergeSpec

-----------------------------------------------------------------------------
\* What a request names is a target, wherever the request stands.
CommandBounds ==
  /\ unwaited \subseteq Targets /\ dirs \subseteq Targets /\ live \subseteq Targets
  /\ step \in {"idle", "asked", "checked", "built", "running", "refused",
               "profile", "done", "failed"}
  /\ request = NoRequest \/ request.kind \in Kinds
  /\ step # "idle" => request.target \in Targets

LEMMA CommandBoundsStep ==
  ASSUME CommandBounds, [MountCommandNext]_MountCommandVars
  PROVE  CommandBounds'
<1>1. ASSUME NEW r \in Requests, Ask(r) PROVE CommandBounds'
  <2>1. r.kind \in Kinds /\ r.target \in Targets
    BY DEF Requests
  <2> QED
    BY <1>1, <2>1 DEF Ask, CommandBounds
<1>2. CASE \E b \in BOOLEAN : CheckDependency(b)
  BY <1>2 DEF CheckDependency, CommandBounds
<1>3. CASE BuildCommand
  <2>1. /\ step = "checked" /\ step' \in {"built", "refused"}
        /\ dirs' \subseteq dirs \cup {request.target}
        /\ UNCHANGED <<request, unwaited, live>>
    BY <1>3 DEF BuildCommand
  <2> QED
    BY <2>1 DEF CommandBounds
<1>4. CASE RunCommand
  BY <1>4 DEF RunCommand, CommandBounds
<1>5. CASE CommandSucceeds
  BY <1>5 DEF CommandSucceeds, CommandBounds
<1>6. CASE \E timedOut \in BOOLEAN : CommandFails(timedOut)
  BY <1>6 DEF CommandFails, CommandBounds
<1>7. CASE \E t \in Targets, ok \in BOOLEAN : LateCommandEnds(t, ok) \/ UnmountTarget(t, ok)
  BY <1>7 DEF LateCommandEnds, UnmountTarget, CommandBounds
<1>8. CASE AnswerMount \/ ProcessRestarts
  BY <1>8 DEF AnswerMount, ProcessRestarts, CommandBounds
<1>9. CASE UNCHANGED MountCommandVars
  BY <1>9 DEF MountCommandVars, CommandBounds
<1> QED
  BY <1>1, <1>2, <1>3, <1>4, <1>5, <1>6, <1>7, <1>8, <1>9 DEF MountCommandNext

LEMMA CommandTypesHold == MountCommandSpec => []MountCommandTypeOK
<1>1. MountCommandInit => CommandBounds /\ ProfileInv
  BY DEF MountCommandInit, CommandBounds, ProfileInv, ExecutorKept
<1>2. CommandBounds /\ [MountCommandNext]_MountCommandVars => CommandBounds'
  BY CommandBoundsStep
<1>3. CommandBounds /\ ProfileInv => MountCommandTypeOK
  <2> SUFFICES ASSUME CommandBounds, ProfileInv PROVE MountCommandTypeOK
    OBVIOUS
  <2>1. executor \in {"none", "Mount", "Network"} /\ firstKind \in Kinds \cup {NoKind}
    BY DEF ProfileInv, ExecutorKept, Profile
  <2> QED
    BY <2>1 DEF CommandBounds, MountCommandTypeOK
<1> QED
  BY <1>1, <1>2, <1>3, ProfileStep, PTL DEF MountCommandSpec

-----------------------------------------------------------------------------
LEMMA StateTypesHold == StateSpec => []StateTypeOK
<1>1. StateInv => StateTypeOK
  BY DEF StateInv
<1> QED
  BY <1>1, StateInitInv, StateStep, PTL DEF StateSpec

LEMMA IdentityTypesHold == IdentitySpec => []IdentityTypeOK
<1>1. IdentityInv /\ [IdentityNext]_IdentityVars => IdentityInv'
  <2> SUFFICES ASSUME IdentityInv, [IdentityNext]_IdentityVars PROVE IdentityInv'
    OBVIOUS
  <2>1. CASE IdentityNext
    BY <2>1, IdentityStep DEF IdentityNext
  <2>2. CASE UNCHANGED IdentityVars
    BY <2>2 DEF IdentityVars, IdentityInv, IdentityTypeOK, IdsApart, Bears
  <2> QED
    BY <2>1, <2>2
<1>2. IdentityInv => IdentityTypeOK
  BY DEF IdentityInv
<1> QED
  BY <1>1, <1>2, IdentityInitInv, PTL DEF IdentitySpec

LEMMA TransportTypesHold == TransportSpec => []TransportTypeOK
<1>1. ServerInv => TransportTypeOK
  BY DEF ServerInv
<1> QED
  BY <1>1, ServerInitInv, ServerStep, PTL DEF TransportSpec

LEMMA CommandLineTypesHold == CommandLineSpec => []CommandLineTypeOK
<1>1. ApartInv => CommandLineTypeOK
  BY DEF ApartInv
<1> QED
  BY <1>1, ApartInit, ApartStep, PTL DEF CommandLineSpec

LEMMA NamingTypesHold == NamingSpec => []NamingTypeOK
<1>1. NamingInv => NamingTypeOK
  BY DEF NamingInv, NamingTypeOK
<1> QED
  BY <1>1, NamingHolds, PTL

LEMMA PathTypesHold == PathSpec => []PathTypeOK
<1>1. PathInv => PathTypeOK
  <2> SUFFICES ASSUME PathInv PROVE PathTypeOK
    OBVIOUS
  <2>1. CASE check = NoCheck
    BY <2>1 DEF NoCheck, PathInv, PathTypeOK
  <2>2. CASE check \in CheckRecords
    BY <2>2 DEF CheckRecords, PathInv, PathTypeOK
  <2> QED
    BY <2>1, <2>2 DEF PathInv
<1> QED
  BY <1>1, PathHolds, PTL

LEMMA SeccompTypesHold == SeccompSpec => []SeccompTypeOK
<1>1. SeccompInv => SeccompTypeOK
  BY DEF SeccompInv, SeccompTypeOK, FilterRecords
<1> QED
  BY <1>1, SeccompHolds, PTL

LEMMA IsolationTypesHold == IsolationSpec => []IsolationTypeOK
<1>1. IsolationInv => IsolationTypeOK
  <2> SUFFICES ASSUME IsolationInv PROVE IsolationTypeOK
    OBVIOUS
  <2>1. ASSUME NEW p \in Pids PROVE process[p].is \in {"free", "ours", "foreign"}
    <3>1. process[p] \in Made \cup {Free, Foreign}
      BY DEF IsolationInv
    <3>2. Free.is = "free" /\ Foreign.is = "foreign"
      BY DEF Free, Foreign
    <3>3. process[p] \in Made => process[p].is = "ours"
      BY DEF Made
    <3> QED
      BY <3>1, <3>2, <3>3
  <2> QED
    BY <2>1 DEF IsolationInv, IsolationTypeOK
<1> QED
  BY <1>1, IsolationHolds, PTL

-----------------------------------------------------------------------------
(* ResourceMonitor: the tasks and the locks they ask for.                       *)

\* Each task stands where its kind of task can: the guard of system is a monitor's,
\* what follows the reading of violations an enforcement's.
StandsApart ==
  /\ \A m \in Monitors : stands[m] \in {"idle", "system", "usage", "violations", "end"}
  /\ stands["report"] \in {"idle", "usage", "violations", "end"}
  /\ \A e \in Enforcers : stands[e] # "system"

ResourceInv == ResourceTypeOK /\ StandsApart

LEMMA KindsOfTasks ==
  /\ Monitors \subseteq Tasks /\ Readers \subseteq Tasks
  /\ Tasks = Monitors \cup Readers /\ Monitors \cap Readers = {}
<1>1. Enforcers \cap {"memory", "processor", "report"} = {}
  BY ResourceAssumption
<1> QED
  BY <1>1 DEF Tasks, Readers, Monitors

\* A step of one task to a place for its kind.
LEMMA TaskMoves ==
  ASSUME ResourceInv, NEW t \in Tasks, NEW phase \in TaskPhases,
         stands' = [stands EXCEPT ![t] = phase],
         t \in Monitors => phase \in {"idle", "system", "usage", "violations", "end"},
         t = "report" => phase \in {"idle", "usage", "violations", "end"},
         t \in Enforcers => phase # "system"
  PROVE  StandsApart' /\ stands' \in [Tasks -> TaskPhases]
<1>1. stands \in [Tasks -> TaskPhases]
  BY DEF ResourceInv, ResourceTypeOK
<1>2. \A u \in Tasks : stands'[u] = IF u = t THEN phase ELSE stands[u]
  BY <1>1
<1>3. Monitors \subseteq Tasks /\ Enforcers \subseteq Tasks /\ "report" \in Tasks
  BY DEF Tasks
<1>4. StandsApart'
  BY <1>2, <1>3 DEF ResourceInv, StandsApart
<1> QED
  BY <1>1, <1>4

LEMMA ResourceStep == ResourceInv /\ [ResourceNext]_ResourceVars => ResourceInv'
<1> SUFFICES ASSUME ResourceInv, [ResourceNext]_ResourceVars PROVE ResourceInv'
  OBVIOUS
<1>0. /\ action \in Actions /\ high \in BOOLEAN /\ load \in BOOLEAN /\ graceOver \in BOOLEAN
      /\ stands \in [Tasks -> TaskPhases] /\ StandsApart
  BY DEF ResourceInv, ResourceTypeOK
<1>b. \A a, b, c : {a, b, c} \subseteq BOOLEAN <=> a \in BOOLEAN /\ b \in BOOLEAN /\ c \in BOOLEAN
  OBVIOUS
<1>t. \A t \in Tasks : /\ t \in Readers <=> t \in Enforcers \/ t = "report"
                       /\ t \in Monitors => t \notin Enforcers /\ t # "report"
                       /\ t = "report" => t \notin Enforcers
  BY ResourceAssumption DEF Readers, Monitors, Tasks
<1>1. ASSUME NEW t \in Tasks, NEW phase \in TaskPhases, stands' = [stands EXCEPT ![t] = phase],
             t \in Monitors => phase \in {"idle", "system", "usage", "violations", "end"},
             t = "report" => phase \in {"idle", "usage", "violations", "end"},
             t \in Enforcers => phase # "system",
             action' = action, high' \in BOOLEAN, load' = load, graceOver' = graceOver
      PROVE  ResourceInv'
  <2>1. StandsApart' /\ stands' \in [Tasks -> TaskPhases]
    BY <1>1, TaskMoves
  <2>2. {high', load', graceOver'} \subseteq BOOLEAN
    BY <1>0, <1>1, <1>b, Zenon
  <2>3. action' \in Actions
    BY <1>0, <1>1
  <2> QED
    BY <2>1, <2>2, <2>3, Zenon DEF ResourceInv, ResourceTypeOK, Actions, Tasks, TaskPhases, Monitors
<1>2. ASSUME NEW t \in Tasks, MonitorTick(t) \/ RefreshSystem(t) \/ PushViolation(t) PROVE ResourceInv'
  <2>1. PICK phase \in {"system", "usage", "end"} : stands' = [stands EXCEPT ![t] = phase]
    BY <1>2 DEF MonitorTick, RefreshSystem, PushViolation, Go
  <2>2. t \in Monitors /\ UNCHANGED <<action, high, load, graceOver>>
    BY <1>2 DEF MonitorTick, RefreshSystem, PushViolation
  <2>3. phase \in TaskPhases
    BY DEF TaskPhases
  <2> QED
    BY <1>0, <1>1, <1>t, <2>1, <2>2, <2>3
<1>3. ASSUME NEW t \in Tasks, WriteUsage(t) PROVE ResourceInv'
  <2>1. PICK phase \in {"violations", "end"} : stands' = [stands EXCEPT ![t] = phase]
    BY <1>3 DEF WriteUsage, Go
  <2>2. t \in Monitors /\ UNCHANGED <<action, load, graceOver>>
    BY <1>3 DEF WriteUsage
  <2>3. high' \in BOOLEAN
    <3>1. high' = IF t = "memory" THEN load ELSE high
      BY <1>3 DEF WriteUsage
    <3> QED
      BY <1>0, <3>1, Zenon
  <2>4. phase \in TaskPhases
    BY DEF TaskPhases
  <2> QED
    BY <1>1, <1>t, <2>1, <2>2, <2>3, <2>4
<1>4. ASSUME NEW t \in Tasks,
             TaskEnds(t) \/ StartReading(t) \/ ReadUsage(t) \/ ReadViolations(t) \/ ReadLast(t)
      PROVE  ResourceInv'
  <2>1. UNCHANGED <<action, high, load, graceOver>>
    BY <1>4 DEF TaskEnds, StartReading, ReadUsage, ReadViolations, ReadLast
  <2>2. \E phase \in TaskPhases :
          /\ stands' = [stands EXCEPT ![t] = phase]
          /\ t \in Monitors => phase \in {"idle", "system", "usage", "violations", "end"}
          /\ t = "report" => phase \in {"idle", "usage", "violations", "end"}
          /\ t \in Enforcers => phase # "system"
    <3>1. CASE TaskEnds(t)
      <4>1. "idle" \in TaskPhases /\ stands' = [stands EXCEPT ![t] = "idle"]
        BY <3>1 DEF TaskEnds, Go, TaskPhases
      <4> QED
        BY <4>1
    <3>2. CASE StartReading(t)
      <4>1. "usage" \in TaskPhases /\ stands' = [stands EXCEPT ![t] = "usage"]
        BY <3>2 DEF StartReading, Go, TaskPhases
      <4> QED
        BY <4>1
    <3>3. CASE ReadUsage(t)
      <4>1. "violations" \in TaskPhases /\ stands' = [stands EXCEPT ![t] = "violations"]
        BY <3>3 DEF ReadUsage, Go, TaskPhases
      <4> QED
        BY <4>1
    <3>4. CASE ReadViolations(t)
      <4>1. /\ t \in Readers
            /\ stands' = [stands EXCEPT ![t] = IF t = "report" THEN "end" ELSE "last"]
        BY <3>4 DEF ReadViolations, Go
      <4>2. PICK phase : phase = IF t = "report" THEN "end" ELSE "last"
        OBVIOUS
      <4>3. phase \in TaskPhases /\ t \notin Monitors /\ phase # "system"
            /\ (t = "report" => phase = "end")
        BY <1>t, <4>1, <4>2 DEF TaskPhases
      <4> QED
        BY <4>1, <4>2, <4>3
    <3>5. CASE ReadLast(t)
      <4>1. "decide" \in TaskPhases /\ stands' = [stands EXCEPT ![t] = "decide"]
            /\ t \in Enforcers
        BY <3>5 DEF ReadLast, Go, TaskPhases
      <4> QED
        BY <1>t, <4>1
    <3> QED
      BY <1>4, <3>1, <3>2, <3>3, <3>4, <3>5
  <2> QED
    BY <1>0, <1>1, <2>1, <2>2
<1>5. ASSUME NEW t \in Tasks, Decide(t) PROVE ResourceInv'
  <2>1. PICK phase \in {"stamp", "end"} : stands' = [stands EXCEPT ![t] = phase]
    BY <1>5 DEF Decide, Go
  <2>2. stands[t] = "decide" /\ UNCHANGED <<action, high, load, graceOver>>
    BY <1>5 DEF Decide
  <2>3. t \notin Monitors /\ t # "report" /\ phase \in TaskPhases
    BY <1>0, <2>2 DEF StandsApart, TaskPhases
  <2> QED
    BY <1>0, <1>1, <2>1, <2>2, <2>3
<1>6. ASSUME NEW t \in Tasks, ExitProcess(t) PROVE ResourceInv'
  <2>1. /\ high' = FALSE /\ graceOver' = FALSE /\ stands' = [u \in Tasks |-> "idle"]
        /\ UNCHANGED <<action, load>>
    BY <1>6 DEF ExitProcess
  <2>2. \A u \in Tasks : stands'[u] = "idle"
    BY <2>1
  <2>3. StandsApart' /\ stands' \in [Tasks -> TaskPhases]
    BY <2>1, <2>2 DEF StandsApart, TaskPhases, Tasks
  <2>4. {high', load', graceOver'} \subseteq BOOLEAN
    <3>1. high' \in BOOLEAN /\ graceOver' \in BOOLEAN /\ load' \in BOOLEAN
      BY <1>0, <2>1, Zenon
    <3> QED
      BY <1>b, <3>1, Zenon
  <2> QED
    BY <1>0, <2>1, <2>3, <2>4, Zenon DEF ResourceInv, ResourceTypeOK, Actions, Tasks, TaskPhases, Monitors
<1>7. CASE LoadChanges \/ GraceEnds \/ UNCHANGED ResourceVars
  <2>1. UNCHANGED <<action, high, stands>>
    BY <1>7 DEF LoadChanges, GraceEnds, ResourceVars
  <2>2. {high', load', graceOver'} \subseteq BOOLEAN
    <3>1. load' \in BOOLEAN
      BY <1>0, <1>7, Zenon DEF LoadChanges, GraceEnds, ResourceVars
    <3>2. graceOver' \in BOOLEAN
      BY <1>0, <1>7, Zenon DEF LoadChanges, GraceEnds, ResourceVars
    <3>3. high' \in BOOLEAN
      BY <1>0, <2>1, Zenon
    <3> QED
      BY <1>b, <3>1, <3>2, <3>3, Zenon
  <2>3. StandsApart'
    BY <1>0, <2>1 DEF StandsApart
  <2> QED
    BY <1>0, <2>1, <2>2, <2>3, Zenon DEF ResourceInv, ResourceTypeOK, Actions, Tasks, TaskPhases, Monitors
<1> QED
  BY <1>2, <1>3, <1>4, <1>5, <1>6, <1>7 DEF ResourceNext, TaskSteps

LEMMA ResourceHolds == ResourceSpec => []ResourceInv
<1>1. ResourceInit => ResourceInv
  <2> SUFFICES ASSUME ResourceInit PROVE ResourceInv
    OBVIOUS
  <2>1. {high, load, graceOver} \subseteq BOOLEAN
    BY Zenon DEF ResourceInit
  <2>2. action \in Actions /\ stands = [t \in Tasks |-> "idle"]
    BY DEF ResourceInit
  <2>3. StandsApart /\ stands \in [Tasks -> TaskPhases]
    BY <2>2 DEF StandsApart, TaskPhases, Tasks
  <2> QED
    BY <2>1, <2>2, <2>3 DEF ResourceInv, ResourceTypeOK
<1> QED
  BY <1>1, ResourceStep, PTL DEF ResourceSpec

LEMMA ResourceTypesHold == ResourceSpec => []ResourceTypeOK
<1>1. ResourceInv => ResourceTypeOK
  BY DEF ResourceInv
<1> QED
  BY <1>1, ResourceHolds, PTL

-----------------------------------------------------------------------------
(* The four locks: who may go on, said without ENABLED.                         *)

\* What TaskSteps asks of the state.
MayGoOn(t) ==
  \/ At(t, {"end", "decide"})
  \/ t \in Enforcers /\ At(t, {"last"}) /\ \A e \in Enforcers : stands[e] # "stamp"
  \/ t \in Readers /\ At(t, {"usage", "violations"}) /\ ~Waiting(stands[t])
  \/ /\ t \in Monitors
     /\ \/ At(t, {"system"}) /\ SystemFree
        \/ At(t, {"usage"}) /\ ~\E u \in Tasks : UsageRead(u)
        \/ At(t, {"violations"}) /\ ~\E u \in Tasks : ViolationsRead(u)

\* What it makes of the state: where t stands then, and the two flags it may change.
Exits(t) == At(t, {"decide"}) /\ graceOver /\ high /\ action = "Terminate"
PlaceAfter(t) ==
  CASE stands[t] = "end" -> "idle"
    [] stands[t] = "decide" -> IF graceOver /\ high /\ action \in {"Warn", "Throttle"}
                               THEN "stamp" ELSE "end"
    [] stands[t] = "last" -> "decide"
    [] stands[t] = "system" -> "usage"
    [] stands[t] = "usage" -> IF t \in Readers \/ (t = "memory" /\ load)
                              THEN "violations" ELSE "end"
    [] stands[t] = "violations" -> IF t \in Enforcers THEN "last" ELSE "end"
GoesOnFrom(t) ==
  /\ stands' = IF Exits(t) THEN [u \in Tasks |-> "idle"]
               ELSE [stands EXCEPT ![t] = PlaceAfter(t)]
  /\ high' = IF Exits(t) THEN FALSE
             ELSE IF t = "memory" /\ At(t, {"usage"}) THEN load ELSE high
  /\ graceOver' = IF Exits(t) THEN FALSE ELSE graceOver
  /\ UNCHANGED <<action, load>>

\* A task steps exactly when it may go on, and then as GoesOnFrom says: a step that
\* gives each variable a value of the present state, so that there is one.
LEMMA StepsAreGoingOn ==
  ASSUME ResourceInv, NEW t \in Tasks
  PROVE  TaskSteps(t) <=> MayGoOn(t) /\ GoesOnFrom(t)
<1>t. /\ t \in Readers <=> t \in Enforcers \/ t = "report"
      /\ t \in Monitors <=> t = "memory" \/ t = "processor"
      /\ t \in Monitors => t \notin Readers /\ t \notin Enforcers
      /\ t = "report" => t \notin Enforcers
      /\ t \in Monitors \/ t \in Readers
  BY KindsOfTasks, ResourceAssumption DEF Readers, Monitors, Tasks
<1>0. /\ stands[t] \in TaskPhases
      /\ t \in Monitors => stands[t] \in {"idle", "system", "usage", "violations", "end"}
      /\ t = "report" => stands[t] \in {"idle", "usage", "violations", "end"}
      /\ t \in Enforcers => stands[t] # "system"
  BY DEF ResourceInv, ResourceTypeOK, StandsApart
<1>n. \/ ~TaskSteps(t) /\ ~MayGoOn(t)
      \/ stands[t] \in {"end", "decide", "last", "system", "usage", "violations"}
  BY DEF TaskSteps, MayGoOn, RefreshSystem, WriteUsage, PushViolation, TaskEnds, ReadUsage,
         ReadViolations, ReadLast, Decide, ExitProcess, Go, At
<1>1. CASE stands[t] = "end"
  <2>1. TaskSteps(t) <=> TaskEnds(t)
    BY <1>1 DEF TaskSteps, RefreshSystem, WriteUsage, PushViolation, ReadUsage,
                ReadViolations, ReadLast, Decide, ExitProcess, Go
  <2>2. MayGoOn(t) /\ ~Exits(t) /\ PlaceAfter(t) = "idle" /\ ~At(t, {"usage"})
    BY <1>1 DEF MayGoOn, Exits, PlaceAfter, At
  <2> QED
    BY <1>1, <2>1, <2>2 DEF TaskEnds, Go, GoesOnFrom
<1>2. CASE stands[t] = "decide"
  <2>1. TaskSteps(t) <=> Decide(t) \/ ExitProcess(t)
    BY <1>2 DEF TaskSteps, RefreshSystem, WriteUsage, PushViolation, TaskEnds, ReadUsage,
                ReadViolations, ReadLast, Go
  <2>2. /\ MayGoOn(t) /\ ~At(t, {"usage"})
        /\ Exits(t) <=> graceOver /\ high /\ action = "Terminate"
        /\ PlaceAfter(t) = IF graceOver /\ high /\ action \in {"Warn", "Throttle"}
                           THEN "stamp" ELSE "end"
    BY <1>2 DEF MayGoOn, Exits, PlaceAfter, At
  <2>3. CASE Exits(t)
    <3>1. ~Decide(t)
      BY <2>2, <2>3 DEF Decide
    <3> QED
      BY <1>2, <2>1, <2>2, <2>3, <3>1 DEF ExitProcess, GoesOnFrom
  <2>4. CASE ~Exits(t)
    <3>1. ~ExitProcess(t)
      BY <2>2, <2>4 DEF ExitProcess
    <3>2. Decide(t) <=> GoesOnFrom(t)
      BY <1>2, <2>2, <2>4 DEF Decide, Go, GoesOnFrom
    <3> QED
      BY <2>1, <2>2, <3>1, <3>2
  <2> QED
    BY <2>3, <2>4
<1>3. CASE stands[t] = "last"
  <2>1. TaskSteps(t) <=> ReadLast(t)
    BY <1>3 DEF TaskSteps, RefreshSystem, WriteUsage, PushViolation, TaskEnds, ReadUsage,
                ReadViolations, Decide, ExitProcess, Go
  <2>2. /\ ~Exits(t) /\ PlaceAfter(t) = "decide" /\ ~At(t, {"usage"}) /\ At(t, {"last"})
        /\ MayGoOn(t) <=> t \in Enforcers /\ \A e \in Enforcers : stands[e] # "stamp"
    BY <1>3 DEF MayGoOn, Exits, PlaceAfter, At
  <2> QED
    BY <1>3, <2>1, <2>2 DEF ReadLast, Go, GoesOnFrom
<1>4. CASE stands[t] = "system"
  <2>1. TaskSteps(t) <=> RefreshSystem(t)
    BY <1>4 DEF TaskSteps, WriteUsage, PushViolation, TaskEnds, ReadUsage,
                ReadViolations, ReadLast, Decide, ExitProcess, Go
  <2>2. /\ ~Exits(t) /\ PlaceAfter(t) = "usage" /\ ~At(t, {"usage"})
        /\ MayGoOn(t) <=> t \in Monitors /\ SystemFree
    BY <1>4 DEF MayGoOn, Exits, PlaceAfter, At
  <2> QED
    BY <1>4, <2>1, <2>2 DEF RefreshSystem, Go, GoesOnFrom
<1>5. CASE stands[t] = "usage"
  <2>1. TaskSteps(t) <=> WriteUsage(t) \/ ReadUsage(t)
    BY <1>5 DEF TaskSteps, RefreshSystem, PushViolation, TaskEnds,
                ReadViolations, ReadLast, Decide, ExitProcess, Go
  <2>2. /\ ~Exits(t) /\ At(t, {"usage"})
        /\ PlaceAfter(t) = IF t \in Readers \/ (t = "memory" /\ load)
                           THEN "violations" ELSE "end"
        /\ MayGoOn(t) <=> \/ t \in Readers /\ ~Waiting("usage")
                          \/ t \in Monitors /\ ~\E u \in Tasks : UsageRead(u)
    BY <1>5 DEF MayGoOn, Exits, PlaceAfter, At
  <2>3. CASE t \in Readers
    <3>1. t \notin Monitors /\ t # "memory"
      BY <1>t, <2>3
    <3> QED
      BY <1>5, <2>1, <2>2, <2>3, <3>1 DEF WriteUsage, ReadUsage, Go, GoesOnFrom
  <2>4. CASE t \in Monitors
    <3>1. t \notin Readers
      BY <1>t, <2>4
    <3> QED
      BY <1>5, <2>1, <2>2, <2>4, <3>1 DEF WriteUsage, ReadUsage, Go, GoesOnFrom
  <2> QED
    BY <1>t, <2>3, <2>4
<1>6. CASE stands[t] = "violations"
  <2>1. TaskSteps(t) <=> PushViolation(t) \/ ReadViolations(t)
    BY <1>6 DEF TaskSteps, RefreshSystem, WriteUsage, TaskEnds, ReadUsage,
                ReadLast, Decide, ExitProcess, Go
  <2>2. /\ ~Exits(t) /\ ~At(t, {"usage"})
        /\ PlaceAfter(t) = IF t \in Enforcers THEN "last" ELSE "end"
        /\ MayGoOn(t) <=> \/ t \in Readers /\ ~Waiting("violations")
                          \/ t \in Monitors /\ ~\E u \in Tasks : ViolationsRead(u)
    BY <1>6 DEF MayGoOn, Exits, PlaceAfter, At
  <2>3. CASE t \in Readers
    <3>1. t \notin Monitors /\ (t \in Enforcers <=> t # "report")
      BY <1>t, <2>3
    <3> QED
      BY <1>6, <2>1, <2>2, <2>3, <3>1 DEF PushViolation, ReadViolations, Go, GoesOnFrom
  <2>4. CASE t \in Monitors
    <3>1. t \notin Readers /\ t \notin Enforcers
      BY <1>t, <2>4
    <3> QED
      BY <1>6, <2>1, <2>2, <2>4, <3>1 DEF PushViolation, ReadViolations, Go, GoesOnFrom
  <2> QED
    BY <1>t, <2>3, <2>4
<1> QED
  BY <1>n, <1>1, <1>2, <1>3, <1>4, <1>5, <1>6

\* SomeoneGoesOn, with what a step asks of the state in place of ENABLED.
SomeoneMayGoOn ==
  (\E t \in Tasks : stands[t] # "idle") /\ (\A e \in Enforcers : stands[e] # "stamp")
    => \E t \in Tasks : MayGoOn(t)

\* The locks are asked for in one order, so that of the tasks that have come furthest
\* one may go on.
LEMMA FurthestGoesOn == ResourceInv => SomeoneMayGoOn
<1> SUFFICES ASSUME ResourceInv, \A e \in Enforcers : stands[e] # "stamp",
                    \A t \in Tasks : ~MayGoOn(t)
             PROVE  \A t \in Tasks : stands[t] = "idle"
  BY DEF SomeoneMayGoOn
<1>0. /\ \A t \in Tasks : stands[t] \in TaskPhases
      /\ \A m \in Monitors : stands[m] \in {"idle", "system", "usage", "violations", "end"}
      /\ stands["report"] \in {"idle", "usage", "violations", "end"}
      /\ \A e \in Enforcers : stands[e] # "system"
  BY DEF ResourceInv, ResourceTypeOK, StandsApart
<1>t. /\ Monitors \subseteq Tasks /\ Readers \subseteq Tasks
      /\ Tasks = Monitors \cup Readers /\ Readers = Enforcers \cup {"report"}
  BY KindsOfTasks DEF Readers
<1>1. \A t \in Tasks : stands[t] \notin {"end", "decide", "stamp"}
  <2>1. \A t \in Tasks : stands[t] \notin {"end", "decide"}
    BY DEF MayGoOn, At
  <2> QED
    BY <1>0, <1>t, <2>1
<1>2. \A t \in Tasks : stands[t] # "last"
  <2>1. \A e \in Enforcers : stands[e] # "last"
    BY <1>t DEF MayGoOn, At
  <2> QED
    BY <1>0, <1>t, <2>1
<1>3. \A t \in Readers : stands[t] \in {"idle", "usage", "violations"}
  BY <1>0, <1>1, <1>2, <1>t DEF TaskPhases
<1>4. \A t \in Tasks : stands[t] # "violations"
  <2>1. \A u \in Tasks : ~ViolationsRead(u)
    BY <1>3 DEF ViolationsRead, At
  <2>2. \A m \in Monitors : stands[m] # "violations"
    BY <1>t, <2>1 DEF MayGoOn, At
  <2>3. \A r \in Readers : stands[r] # "violations"
    BY <1>t, <2>2 DEF MayGoOn, At, Waiting
  <2> QED
    BY <1>t, <2>2, <2>3
<1>5. \A t \in Tasks : stands[t] # "usage"
  <2>1. \A u \in Tasks : ~UsageRead(u)
    BY <1>3, <1>4 DEF UsageRead, At
  <2>2. \A m \in Monitors : stands[m] # "usage"
    BY <1>t, <2>1 DEF MayGoOn, At
  <2>3. \A r \in Readers : stands[r] # "usage"
    BY <1>t, <2>2 DEF MayGoOn, At, Waiting
  <2> QED
    BY <1>t, <2>2, <2>3
<1>6. \A m \in Monitors : stands[m] = "idle"
  <2>1. \A m \in Monitors : stands[m] \in {"idle", "system"}
    BY <1>0, <1>1, <1>4, <1>5, <1>t
  <2>2. SystemFree
    BY <2>1 DEF SystemFree, At
  <2>3. \A m \in Monitors : stands[m] # "system"
    BY <1>t, <2>2 DEF MayGoOn, At
  <2> QED
    BY <2>1, <2>3
<1>7. \A r \in Readers : stands[r] = "idle"
  BY <1>3, <1>4, <1>5, <1>t
<1> QED
  BY <1>6, <1>7, <1>t

\* For any number of enforcements, beside the report and the two monitors: some task may
\* go on whenever one is under way, unless an enforcement waits for the guard it has
\* itself (security/resource_limits.rs).
THEOREM LocksFormNoCircle == ResourceSpec => []SomeoneMayGoOn
BY ResourceHolds, FurthestGoesOn, PTL

-----------------------------------------------------------------------------
(* MCComponents: a behaviour of the whole is one of each component, which either *)
(* runs alone or stays as it began; so what holds of the components holds of    *)
(* the whole.                                                                   *)

LEMMA ComponentsStart ==
  MCInit => /\ IntegrityInit /\ CredentialInit /\ HsmInit /\ KeyInit /\ SealedInit
            /\ RoundInit /\ MemoryInit /\ DashboardInit /\ SeccompInit /\ IsolationInit
BY DEF MCInit

LEMMA ComponentsStep ==
  [MCNext]_MCVars => /\ [IntegrityNext]_IntegrityVars /\ [CredentialNext]_CredentialVars
                     /\ [HsmNext]_HsmVars /\ [KeyNext]_KeyVars
                     /\ [SealedNext]_SealedVars /\ [RoundNext]_RoundVars
                     /\ [MemoryNext]_MemoryVars /\ [DashboardNext]_DashboardVars
                     /\ [SeccompNext]_SeccompVars /\ [IsolationNext]_IsolationVars
BY Zenon DEF MCNext, MCVars, Only, Others

\* At every moment: what was stored is what is found, as long as updates keep apart,
\* what rotates keeps the latest value, a key is as strong as asked for, and a sealed
\* file opens to its writer alone (file_provider.rs, hardware_credential_provider.rs,
\* key_derivation.rs, encryption.rs).
THEOREM SecretsStaySafe == MCSpec => []SecretsStand
<1>1. MCSpec => CredentialSpec /\ HsmSpec /\ KeySpec /\ SealedSpec
  BY ComponentsStart, ComponentsStep, PTL
     DEF MCSpec, CredentialSpec, HsmSpec, KeySpec, SealedSpec
<1>2. UpdatesApartStand /\ RotationKeepsLatest /\ StrengthFollowsLevel /\ SealHolds
        => SecretsStand
  BY DEF SecretsStand
<1> QED
  BY <1>1, <1>2, UpdatesApartKeep, RotationsKeepLatest, StrengthStays, SealsHold, PTL

\* At every moment: a violation is against the baseline it was found with, the record
\* of a protected region is of its content, and the dashboard adds up (integrity.rs,
\* security_dashboard.rs).
THEOREM WatchersStayTrue == MCSpec => []WatchersStand
<1>1. MCSpec => RoundSpec /\ MemorySpec /\ DashboardSpec
  BY ComponentsStart, ComponentsStep, PTL DEF MCSpec, RoundSpec, MemorySpec, DashboardSpec
<1>2. ViolationsAreFounded /\ RecordFollowsRegion /\ DashboardAddsUp => WatchersStand
  BY DEF WatchersStand
<1> QED
  BY <1>1, <1>2, ViolationsStayFounded, RecordsFollowRegions, DashboardStaysSound, PTL

\* At every moment: filters counted as real are loaded, and a command that clone
\* started is confined as its configuration says (seccomp.rs, process_isolation.rs).
THEOREM ConfinementHolds == MCSpec => []ConfinementStands
<1>1. MCSpec => SeccompSpec /\ IsolationSpec
  BY ComponentsStart, ComponentsStep, PTL DEF MCSpec, SeccompSpec, IsolationSpec
<1>2. FiltersStand /\ ClonedAreConfined => ConfinementStands
  BY DEF ConfinementStands
<1> QED
  BY <1>1, <1>2, FiltersStayLoaded, ClonesStayConfined, PTL

\* A part that does not run stands where it could begin.
LEMMA RestsBegin ==
  MCInit => MergeInit /\ StateInit /\ PathInit
<1> SUFFICES ASSUME MCInit PROVE MergeInit /\ StateInit /\ PathInit
  OBVIOUS
<1>1. MergeInit
  <2>1. CASE part = "Merge"
    BY <2>1 DEF MCInit
  <2>2. CASE part # "Merge"
    <3>1. MergeRests
      BY <2>2 DEF MCInit
    <3>2. \A i \in Members : inputs[i] = [mounts |-> [m \in MergeMounts |-> Absent],
                                          clustered |-> FALSE, sync |-> 0, last |-> 0]
      BY <3>1 DEF MergeRests
    <3>3. inputs \in [Members -> Configuration]
      <4>1. Absent \in Version /\ 0 \in 0..MaxSync
        BY MergeAssumption DEF Version
      <4> QED
        BY <3>1, <4>1 DEF MergeRests, Configuration
    <3> QED
      BY <3>1, <3>2, <3>3 DEF MergeRests, MergeInit
  <2> QED
    BY <2>1, <2>2
<1>2. StateInit
  BY DEF MCInit, StateRests
<1>3. PathInit
  <2>1. CASE part = "Path"
    BY <2>1 DEF MCInit
  <2>2. CASE part # "Path"
    <3>1. PathRests
      BY <2>2 DEF MCInit
    <3>2. known \in BOOLEAN
      BY <3>1, Zenon DEF PathRests
    <3> QED
      BY <3>1, <3>2 DEF PathRests, PathInit
  <2> QED
    BY <2>1, <2>2
<1> QED
  BY <1>1, <1>2, <1>3

LEMMA OthersStart ==
  MCInit => /\ IdentityInit /\ TransportInit /\ CommandLineInit /\ MountCommandInit
            /\ NamingInit /\ SessionInit /\ FrameInit /\ ConfigSecurityInit
            /\ UpdatesInit /\ ResourceInit
BY DEF MCInit

LEMMA OthersStep ==
  [MCNext]_MCVars => /\ [MergeNext]_MergeVars /\ [StateNext]_StateVars
                     /\ [IdentityNext]_IdentityVars /\ [TransportNext]_TransportVars
                     /\ [CommandLineNext]_CommandLineVars
                     /\ [MountCommandNext]_MountCommandVars /\ [NamingNext]_NamingVars
                     /\ [PathNext]_PathVars /\ [SessionNext]_SessionVars
                     /\ [FrameNext]_FrameVars /\ [ConfigSecurityNext]_ConfigSecurityVars
                     /\ [UpdatesNext]_UpdatesVars /\ [ResourceNext]_ResourceVars
BY Zenon DEF MCNext, MCVars, Only, Others

\* At every moment the part that runs is in the states its module describes, for any
\* values of the constants: whatever it counts stays below its bound, and whatever it
\* looks up is there (the types of the twenty-three parts, each from src/ as its module maps it).
THEOREM ComponentsStayTyped == MCSpec => []ComponentTypes
<1>1. MCSpec => /\ MergeSpec /\ StateSpec /\ IdentitySpec /\ TransportSpec
                /\ CommandLineSpec /\ MountCommandSpec /\ NamingSpec /\ PathSpec
                /\ SessionSpec /\ FrameSpec /\ ConfigSecuritySpec /\ UpdatesSpec
                /\ ResourceSpec
  BY RestsBegin, OthersStart, OthersStep, PTL
     DEF MCSpec, MergeSpec, StateSpec, IdentitySpec, TransportSpec, CommandLineSpec,
         MountCommandSpec, NamingSpec, PathSpec, SessionSpec, FrameSpec,
         ConfigSecuritySpec, UpdatesSpec, ResourceSpec
<1>2. MCSpec => /\ IntegritySpec /\ CredentialSpec /\ HsmSpec /\ KeySpec /\ SealedSpec
                /\ RoundSpec /\ MemorySpec /\ DashboardSpec /\ SeccompSpec /\ IsolationSpec
  BY ComponentsStart, ComponentsStep, PTL
     DEF MCSpec, IntegritySpec, CredentialSpec, HsmSpec, KeySpec, SealedSpec,
         RoundSpec, MemorySpec, DashboardSpec, SeccompSpec, IsolationSpec
<1>3. /\ MergeTypeOK /\ StateTypeOK /\ IdentityTypeOK /\ TransportTypeOK
      /\ CommandLineTypeOK /\ MountCommandTypeOK /\ NamingTypeOK /\ PathTypeOK
      /\ SessionTypeOK /\ FrameTypeOK /\ ConfigSecurityTypeOK /\ UpdatesTypeOK
      /\ ResourceTypeOK /\ IntegrityTypeOK /\ CredentialTypeOK /\ HsmTypeOK /\ KeyTypeOK
      /\ SealedTypeOK /\ RoundTypeOK /\ MemoryTypeOK /\ DashboardTypeOK /\ SeccompTypeOK
      /\ IsolationTypeOK
      => ComponentTypes
  BY DEF ComponentTypes
<1>4. MCSpec => []/\ MergeTypeOK /\ StateTypeOK /\ IdentityTypeOK /\ TransportTypeOK
                  /\ CommandLineTypeOK /\ MountCommandTypeOK /\ NamingTypeOK /\ PathTypeOK
                  /\ SessionTypeOK /\ FrameTypeOK /\ ConfigSecurityTypeOK /\ UpdatesTypeOK
                  /\ ResourceTypeOK
  BY <1>1, MergeTypesHold, StateTypesHold, IdentityTypesHold, TransportTypesHold,
     CommandLineTypesHold, CommandTypesHold, NamingTypesHold, PathTypesHold,
     SessionTypes, FrameTypesHold, SaveTypesHold, UpdatesTypesHold, ResourceTypesHold, PTL
<1>5. MCSpec => []/\ IntegrityTypeOK /\ CredentialTypeOK /\ HsmTypeOK /\ KeyTypeOK
                  /\ SealedTypeOK /\ RoundTypeOK /\ MemoryTypeOK /\ DashboardTypeOK
                  /\ SeccompTypeOK /\ IsolationTypeOK
  BY <1>2, IntegrityTypes, CredentialTypesHold, HsmTypesHold, KeyTypes, SealedTypes,
     RoundTypesHold, MemoryTypes, DashboardTypesHold, SeccompTypesHold, IsolationTypesHold, PTL
<1> QED
  BY <1>3, <1>4, <1>5, PTL

\* At every moment, for any values of the constants: an NFS command runs with the last
\* word of its request and the profile stops only latecomers, ids and directories agree,
\* the verdict on a path is about the file it leads to, and what is mounted on request
\* is registered (mount/drivers, path_security.rs, integrity.rs).
THEOREM MountsAreSound == MCSpec => []MountsStand
<1>1. MCSpec => MountCommandSpec /\ NamingSpec /\ PathSpec
  BY RestsBegin, OthersStart, OthersStep, PTL
     DEF MCSpec, MountCommandSpec, NamingSpec, PathSpec
<1>2. MCSpec => IntegritySpec
  BY ComponentsStart, ComponentsStep, PTL DEF MCSpec, IntegritySpec
<1>3. LastWordStands /\ StoppedByProfile /\ NamesAgree /\ VerdictsStand /\ MountedIsWatched
      => MountsStand
  BY DEF MountsStand, CommandStands
<1> QED
  BY <1>1, <1>2, <1>3, LastWordHolds, ProfileStopsLatecomers, NamesStayTogether,
     VerdictsFollowFiles, MountedStayWatched, PTL
=============================================================================
