--------------------------- MODULE DependencyGraph ---------------------------
(* The dependency graph of monitoring/dependency.rs.  The mounts are nodes of a   *)
(* petgraph DiGraph, which numbers them 0, 1, ... and on a removal gives the last *)
(* node the number of the removed one; two maps, from mount to number and back,   *)
(* are kept beside it and do not hear of that. Two nodes may have several edges;  *)
(* edges have numbers too, and the last one takes that of an edge removed.        *)
EXTENDS Integers, FiniteSets

CONSTANTS Shares,       \* mount ids
          NoShare,      \* no mount
          MaxEdges      \* bound on the edges

ASSUME GraphAssumption == IsFiniteSet(Shares) /\ NoShare \notin Shares

VARIABLES size,         \* the number of nodes
          edges,        \* how many there are from a dependency to a dependent
          shuffled,     \* whether the numbers of the edges may not follow their age
          number,       \* mounts: the number of each mount, or Missing
          name,         \* reverse_index: the mount of each number, or NoShare
          renumbered,   \* of the properties only: a removal moved another node
          declared,     \* of the properties only: dependencies asked for, and
          surviving     \* those that were asked to go and did not, until then

GraphVars == <<size, edges, shuffled, number, name, renumbered, declared, surviving>>

Missing == -1
Numbers == 0..(Cardinality(Shares) - 1)
Nodes == 0..(size - 1)
Pairs == Numbers \X Numbers

\* The pairs with an edge, and all edges one by one.
Joined(counts) == {e \in Pairs : counts[e] > 0}
EachEdge == {x \in Pairs \X (1..MaxEdges) : x[2] <= edges[x[1]]}

GraphTypeOK ==
  /\ size \in 0..Cardinality(Shares)
  /\ edges \in [Pairs -> Nat] /\ Joined(edges) \subseteq Nodes \X Nodes
  /\ shuffled \in BOOLEAN
  /\ number \in [Shares -> Numbers \cup {Missing}]
  /\ name \in [Numbers -> Shares \cup {NoShare}]
  /\ renumbered \in BOOLEAN
  /\ declared \subseteq Shares \X Shares /\ surviving \subseteq Shares \X Shares

GraphInit ==
  /\ size = 0 /\ edges = [e \in Pairs |-> 0] /\ shuffled = FALSE
  /\ declared = {} /\ surviving = {} /\ renumbered = FALSE
  /\ number = [s \in Shares |-> Missing]
  /\ name = [n \in Numbers |-> NoShare]

\* A mount whose node a failed removal left behind makes the graph longer than
\* the mounts are many; the model stops adding there.
AddMount(s) ==
  /\ number[s] = Missing /\ size < Cardinality(Shares)
  /\ size' = size + 1
  /\ number' = [number EXCEPT ![s] = size]
  /\ name' = [name EXCEPT ![size] = s]
  /\ UNCHANGED <<edges, shuffled, renumbered, declared, surviving>>

\* Graph::remove_edge gives the last edge the number of the removed one, so that
\* from then on numbers and ages may differ, until no edge is left.
EdgesBecome(counts) ==
  /\ edges' = counts
  /\ shuffled' = (Joined(counts) # {} /\ (shuffled \/ counts # edges))

\* Graph::remove_node: the edges of the node go, the last node takes its number.
Former(n, gone) == IF n = gone THEN size - 1 ELSE n
RemoveNode(gone) ==
  /\ size' = size - 1
  /\ EdgesBecome([e \in Pairs |->
       IF e[1] < size - 1 /\ e[2] < size - 1
       THEN edges[<<Former(e[1], gone), Former(e[2], gone)>>] ELSE 0])

\* A number past the last node removes nothing.
RemoveShare(s) ==
  /\ number[s] # Missing
  /\ number' = [number EXCEPT ![s] = Missing]
  /\ name' = [name EXCEPT ![number[s]] = NoShare]
  /\ IF number[s] \in Nodes
     THEN /\ RemoveNode(number[s])
          /\ renumbered' = (renumbered \/ number[s] # size - 1)
     ELSE UNCHANGED <<size, edges, shuffled, renumbered>>
  /\ declared' = {d \in declared : ~renumbered' /\ s \notin {d[1], d[2]}}
  /\ surviving' = {d \in surviving : ~renumbered' /\ s \notin {d[1], d[2]}}

\* Faulty: the edge goes the other way.
AddReversed(s, t) ==
  /\ number[s] \in Nodes /\ number[t] \in Nodes
  /\ Cardinality(EachEdge) < MaxEdges
  /\ edges' = [edges EXCEPT ![<<number[s], number[t]>>] = @ + 1]
  /\ declared' = IF renumbered THEN {} ELSE declared \cup {<<t, s>>}
  /\ UNCHANGED <<size, shuffled, number, name, renumbered, surviving>>

\* Graph::add_edge adds one more whatever there is, and panics when a number is past
\* the last node: the guard stands for the calls that return.
AddDependency(s, t) ==
  /\ number[s] \in Nodes /\ number[t] \in Nodes
  /\ Cardinality(EachEdge) < MaxEdges
  /\ edges' = [edges EXCEPT ![<<number[t], number[s]>>] = @ + 1]
  /\ declared' = IF renumbered THEN {} ELSE declared \cup {<<t, s>>}
  /\ UNCHANGED <<size, shuffled, number, name, renumbered, surviving>>

\* The numbers of all edges of the pair are collected, newest edge first, and removed
\* one by one. Where numbers follow age none of the pair has taken another's. Else each
\* removal may save one, which has moved to the number just removed.
RemoveDependency(s, t) ==
  /\ number[s] # Missing /\ number[t] # Missing
  /\ LET pair == <<number[t], number[s]>>
     IN \E rest \in 0..(IF shuffled THEN edges[pair] \div 2 ELSE 0) :
          /\ EdgesBecome([edges EXCEPT ![pair] = rest])
          /\ surviving' = IF renumbered \/ rest = 0 THEN surviving \ {<<t, s>>}
                          ELSE surviving \cup {<<t, s>>}
  /\ declared' = declared \ {<<t, s>>}
  /\ UNCHANGED <<size, number, name, renumbered>>

GraphNext ==
  \E s \in Shares : \/ AddMount(s) \/ RemoveShare(s)
                    \/ \E t \in Shares : AddDependency(s, t) \/ RemoveDependency(s, t)

GraphSpec == GraphInit /\ [][GraphNext]_GraphVars

-----------------------------------------------------------------------------
(* Queries *)

\* get_dependencies: what the graph says the mount waits for.
DependenciesOf(s) == {name[e[1]] : e \in {e \in Joined(edges) : e[2] = number[s]}}
DependentsOf(s) == {name[e[2]] : e \in {e \in Joined(edges) : e[1] = number[s]}}

\* toposort succeeds without a cycle; any order it may return.
Orders == {o \in [1..size -> Nodes] :
             /\ \A i, j \in DOMAIN o : i # j => o[i] # o[j]
             /\ \A i, j \in DOMAIN o : <<o[i], o[j]>> \in Joined(edges) => i < j}
\* get_startup_sequence: the mounts at their places in the order; a number without
\* a mount is left out, and its place stays empty here.
Named(o) == {i \in DOMAIN o : name[o[i]] # NoShare}
StartupSequences == {[i \in Named(o) |-> name[o[i]]] : o \in Orders}

-----------------------------------------------------------------------------
(* Properties *)

\* Until a removal moves another node, the two maps, the nodes and the edges tell the
\* dependencies that were asked for, and every startup order puts a mount after those
\* it depends on. Removing any mount but the one added last ends that. Beside them
\* stands a dependency that was added more than once and then removed, after the
\* removal of another edge mixed up the numbers (dependency.rs:150-207).
SoundUntilRenumbered ==
  ~renumbered =>
    LET stands == declared \cup surviving
    IN /\ \A s \in Shares : number[s] # Missing =>
            /\ DependenciesOf(s) = {d[1] : d \in {d \in stands : d[2] = s}}
            /\ DependentsOf(s) = {d[2] : d \in {d \in stands : d[1] = s}}
       /\ \A q \in StartupSequences : \A d \in stands :
            \E i, j \in DOMAIN q : q[i] = d[1] /\ q[j] = d[2] /\ i < j
       /\ surviving # {} => shuffled
=============================================================================
