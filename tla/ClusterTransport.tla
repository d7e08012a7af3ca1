-------------------------- MODULE ClusterTransport --------------------------
(* The cluster's TCP transport (network/tcp.rs): the accept loop, a task per    *)
(* accepted connection, and `connections', which all of them and connect_to_peer *)
(* share.  An incoming connection is listed under its address, an outgoing one  *)
(* under the peer's id; neither entry ever gets a stream, so send_message and   *)
(* broadcast_message find nothing to write to and change nothing here.          *)
EXTENDS Integers, FiniteSets

CONSTANTS Addresses,   \* remote addresses of incoming connections
          Remotes      \* ids of peers that are dialled

ASSUME TransportAssumption == Addresses \cap Remotes = {}

VARIABLES serving,     \* server_running
          draining,    \* stop_server calls between the flag and the list
          loop,        \* the accept loop lives, and holds the port
          listing,     \* the keys of connections
          link,        \* the task of each incoming connection
          dialling,    \* connect_to_peer calls past the look at connections
          late,        \* of the properties only: accepted since serving fell
          spoilt       \* of the properties only: links whose task ended early

TransportVars == <<serving, draining, loop, listing, link, dialling, late,
                   spoilt>>

TransportTypeOK ==
  /\ {serving, draining, loop} \subseteq BOOLEAN
  /\ listing \subseteq Addresses \cup Remotes
  /\ link \in [Addresses -> {"none", "auth", "reading"}]
  /\ dialling \subseteq Remotes
  /\ late \in 0..2
  /\ spoilt \subseteq Addresses

TransportInit ==
  /\ serving = FALSE /\ draining = FALSE /\ loop = FALSE /\ listing = {}
  /\ link = [a \in Addresses |-> "none"]
  /\ dialling = {} /\ late = 0 /\ spoilt = {}

\* start_server sets the flag before it binds: when the port is taken, by the
\* loop of an earlier start among others, the flag stays set.
StartServer ==
  /\ ~serving /\ serving' = TRUE
  /\ loop' \in IF loop THEN {TRUE} ELSE BOOLEAN
  /\ late' = 0
  /\ UNCHANGED <<draining, listing, link, dialling, spoilt>>

\* stop_server lowers the flag and then drains the list; the loop stays in accept
\* and the links go on.
StopServer ==
  /\ serving' = FALSE /\ draining' = TRUE
  /\ UNCHANGED <<loop, listing, link, dialling, late, spoilt>>

DrainConnections ==
  /\ draining /\ draining' = FALSE
  /\ listing' = {} /\ spoilt' = {}
  /\ UNCHANGED <<serving, loop, link, dialling, late>>

\* One round of the loop: accept, list, spawn; then the flag is read again.
AcceptLink(a) ==
  /\ loop /\ link[a] = "none" /\ a \notin listing
  /\ listing' = listing \cup {a}
  /\ link' = [link EXCEPT ![a] = "auth"]
  /\ loop' = serving
  /\ late' = IF serving THEN late ELSE late + 1
  /\ spoilt' = spoilt \ {a}
  /\ UNCHANGED <<serving, draining, dialling>>

\* authenticate_connection: an error returns before the clean-up.
AuthenticateLink(a) ==
  /\ link[a] = "auth"
  /\ \/ link' = [link EXCEPT ![a] = "reading"] /\ UNCHANGED spoilt
     \/ /\ link' = [link EXCEPT ![a] = "none"]
        /\ spoilt' = spoilt \cup ({a} \cap listing)
  /\ UNCHANGED <<serving, draining, loop, listing, dialling, late>>

\* Faulty: the entry stays.
CloseKeepsEntry(a) ==
  /\ link[a] = "reading"
  /\ link' = [link EXCEPT ![a] = "none"]
  /\ UNCHANGED <<serving, draining, loop, listing, dialling, late, spoilt>>

\* The peer closes, or reading or answering fails: the entry goes.
CloseLink(a) ==
  /\ link[a] = "reading"
  /\ link' = [link EXCEPT ![a] = "none"]
  /\ listing' = listing \ {a}
  /\ UNCHANGED <<serving, draining, loop, dialling, late, spoilt>>

\* A message that does not parse returns before the clean-up.
UnreadableMessage(a) ==
  /\ link[a] = "reading"
  /\ link' = [link EXCEPT ![a] = "none"]
  /\ spoilt' = spoilt \cup ({a} \cap listing)
  /\ UNCHANGED <<serving, draining, loop, listing, dialling, late>>

\* connect_to_peer looks, dials, and lists the peer without looking again.
DialPeer(r) ==
  /\ r \notin listing /\ r \notin dialling
  /\ dialling' = dialling \cup {r}
  /\ UNCHANGED <<serving, draining, loop, listing, link, late, spoilt>>

DialEnds(r) ==
  /\ r \in dialling /\ dialling' = dialling \ {r}
  /\ \E connected \in BOOLEAN :
       listing' = IF connected THEN listing \cup {r} ELSE listing
  /\ UNCHANGED <<serving, draining, loop, link, late, spoilt>>

DisconnectPeer(r) ==
  /\ r \in listing /\ listing' = listing \ {r}
  /\ UNCHANGED <<serving, draining, loop, link, dialling, late, spoilt>>

TransportNext ==
  \/ StartServer \/ StopServer \/ DrainConnections
  \/ \E a \in Addresses : \/ AcceptLink(a) \/ AuthenticateLink(a)
                          \/ CloseLink(a) \/ UnreadableMessage(a)
  \/ \E r \in Remotes : DialPeer(r) \/ DialEnds(r) \/ DisconnectPeer(r)

TransportSpec == TransportInit /\ [][TransportNext]_TransportVars

-----------------------------------------------------------------------------
(* Properties *)

\* An entry outlives its connection only when its task left early, by a failed
\* authentication or an unreadable message: a peer that closes leaves nothing.
LeakOnlyByEarlyReturn ==
  \A a \in Addresses : a \in listing /\ link[a] = "none" => a \in spoilt

\* Once stopped, the server takes at most the one connection its loop was waiting
\* for, and then gives up the port.
QuietAfterStop == ~serving => late <= 1 /\ (late = 1 => ~loop)

ServerLeavesNothing == LeakOnlyByEarlyReturn /\ QuietAfterStop
=============================================================================
