---------------------- MODULE ConnectionLimiterProofs ----------------------
(***************************************************************************)
(* Proofs about ConnectionLimiter for any finite sets of clients and       *)
(* connections and any limits in the order of LimitsInOrder.               *)
(*                                                                         *)
(* Why the limits hold although the cleanup task forgets clients: a client *)
(* with a connection, or with a timestamp in the window, was active no     *)
(* longer ago than that connection or timestamp, so it is not idle         *)
(* (Recent), and its count is exact (Exact).                               *)
(***************************************************************************)
EXTENDS ConnectionLimiter, FiniteSetTheorems, TLAPS

\* The connections that the count of client p still includes.
HeldBy(p) == {k \in Conns : conn[k].at \in {"open", "release"} /\ conn[k].peer = p}
BeingCounted(p) == IF acc.at = "count" /\ acc.peer = p THEN 1 ELSE 0

\* The count of each client is that of its connections until they are released.
Exact == \A p \in Peers :
            /\ entry[p].active = Cardinality(HeldBy(p)) + BeingCounted(p)
            /\ entry[p].active <= PerClientMax
            /\ p \notin known => entry[p] = NewEntry

\* Who has a connection or a timestamp was active since.
Recent ==
    /\ \A k \in Conns : conn[k].at \in {"open", "release"} =>
          /\ conn[k].peer \in known
          /\ entry[conn[k].peer].idle <= conn[k].age
    /\ acc.at = "count" => acc.peer \in known /\ entry[acc.peer].idle = 0
    /\ \A p \in Peers : \A i \in DOMAIN entry[p].stamps :
          entry[p].idle <= entry[p].stamps[i]

Sorted(stamps) == \A i, j \in DOMAIN stamps : i <= j => stamps[j] <= stamps[i]

\* The timestamps kept are those of the admissions in the window.
Stamped == \A p \in Peers :
    /\ entry[p].stamps = accepted[p]
    /\ Len(accepted[p]) <= RateMax
    /\ Sorted(accepted[p])

\* What the metric lacks or has too much, but for those about to be counted.
Drift ==
    LET counting == Counted + Cardinality(At("settle"))
    IN  active + Admitting \in {counting, counting + 1}

\* The clients' mutex has one holder at most, the metrics' too.
OneHolder ==
    /\ Cardinality(At("settle")) <= 1
    /\ acc.at = "refuse" => At("settle") = {}

LimiterInv == TypeOK /\ NoPermitLost /\ Exact /\ Recent /\ Stamped /\ OneHolder /\ Drift

-----------------------------------------------------------------------------
(* Timestamps                                                               *)

\* The timestamps outside the window are the first ones, as many as there are.
LEMMA OlderFacts ==
    ASSUME NEW s \in Seq(0..RateWindow), Sorted(s)
    PROVE  /\ Older(s) \in Seq(0..RateWindow)
           /\ Len(Older(s)) <= Len(s)
           /\ Sorted(Older(s))
           /\ \A i \in DOMAIN Older(s) : \E j \in DOMAIN s : Older(s)[i] = s[j] + 1
<1> DEFINE n == Cardinality(Expired(s))
<1>0. Len(s) \in Nat /\ \A i \in 1..Len(s) : s[i] \in 0..RateWindow
  <2>1. Len(s) \in Nat
    OBVIOUS
  <2>2. \A i \in 1..Len(s) : s[i] \in 0..RateWindow
    BY LimitsInOrder
  <2> QED
    BY <2>1, <2>2
<1>1. IsFiniteSet(1..Len(s)) /\ Cardinality(1..Len(s)) = Len(s)
  <2>1. 1 \in Int /\ Len(s) \in Int
    BY <1>0
  <2>2. /\ IsFiniteSet(1..Len(s))
        /\ Cardinality(1..Len(s)) = IF 1 > Len(s) THEN 0 ELSE Len(s) - 1 + 1
    BY <2>1, FS_Interval
  <2> QED
    BY <1>0, <2>2
<1>2. n \in Nat /\ n <= Len(s)
  BY <1>1, FS_Subset, FS_CardinalityType DEF Expired
<1>3. ASSUME NEW j \in DOMAIN s, n < j PROVE s[j] < RateWindow
  <2> SUFFICES ASSUME s[j] >= RateWindow PROVE FALSE
    BY LimitsInOrder
  <2>1. 1..j \subseteq Expired(s)
    BY LimitsInOrder DEF Sorted, Expired
  <2>2. Cardinality(1..j) = j
    BY FS_Interval
  <2> QED
    BY <1>1, <1>2, <1>3, <2>1, <2>2, FS_Subset DEF Expired
<1>4. Older(s) = [i \in 1..(Len(s) - n) |-> s[n + i] + 1]
  BY DEF Older
<1>5. ASSUME NEW i \in 1..(Len(s) - n)
      PROVE  n + i \in DOMAIN s /\ s[n + i] + 1 \in 0..RateWindow
  <2>1. n + i \in DOMAIN s /\ n < n + i
    BY <1>0, <1>2
  <2>2. s[n + i] < RateWindow /\ s[n + i] \in Nat
    BY <1>0, <1>3, <2>1
  <2> QED
    BY <2>1, <2>2, LimitsInOrder
<1> HIDE DEF n
<1>6. Older(s) \in Seq(0..RateWindow) /\ Len(Older(s)) = Len(s) - n
  <2>1. Len(s) - n \in Nat
    BY <1>0, <1>2
  <2>2. Older(s) \in [1..(Len(s) - n) -> 0..RateWindow]
    BY <1>4, <1>5
  <2>3. Older(s) \in Seq(0..RateWindow)
    BY <2>1, <2>2, LimitsInOrder
  <2> QED
    BY <2>1, <2>2, <2>3, LimitsInOrder
<1>7. Sorted(Older(s))
  <2> SUFFICES ASSUME NEW i \in 1..(Len(s) - n), NEW j \in 1..(Len(s) - n), i <= j
               PROVE  Older(s)[j] <= Older(s)[i]
    BY <1>6 DEF Sorted
  <2>1. s[n + j] <= s[n + i]
    BY <1>0, <1>2, <1>5 DEF Sorted
  <2> QED
    BY <1>0, <1>2, <1>4, <1>5, <2>1
<1>8. \A i \in DOMAIN Older(s) : \E j \in DOMAIN s : Older(s)[i] = s[j] + 1
  BY <1>4, <1>5
<1> QED
  BY <1>0, <1>2, <1>6, <1>7, <1>8

\* A new timestamp is the youngest.
LEMMA AppendFacts ==
    ASSUME NEW s \in Seq(0..RateWindow), Sorted(s)
    PROVE  /\ Append(s, 0) \in Seq(0..RateWindow)
           /\ Len(Append(s, 0)) = Len(s) + 1
           /\ Sorted(Append(s, 0))
<1>1. 0 \in 0..RateWindow
  BY LimitsInOrder
<1>2. Append(s, 0) \in Seq(0..RateWindow) /\ Len(Append(s, 0)) = Len(s) + 1
  BY <1>1
<1>3. \A i \in DOMAIN Append(s, 0) :
          Append(s, 0)[i] = IF i = Len(s) + 1 THEN 0 ELSE s[i]
  BY <1>2
<1> QED
  BY <1>2, <1>3, LimitsInOrder DEF Sorted

\* A sequence with no index is empty.
LEMMA NoIndex ==
    ASSUME NEW S, NEW s \in Seq(S), DOMAIN s = {}
    PROVE  s = <<>>
<1>1. Len(s) \in Nat /\ DOMAIN s = 1..Len(s)
  OBVIOUS
<1>2. Len(s) > 0 => 1 \in DOMAIN s
  BY <1>1
<1>3. Len(s) = 0
  BY <1>1, <1>2
<1> QED
  BY <1>3

-----------------------------------------------------------------------------
(* The count of all clients                                                 *)

\* Counted, as a function of the map: what it counts, and when it counts it well.
Pairs(peers, map) == UNION {{p} \X (1..map[p].active) : p \in peers}
Countable(peers, map) ==
    /\ peers \subseteq Peers
    /\ map \in [Peers -> Entry]
    /\ \A p \in Peers : /\ map[p].active <= PerClientMax
                        /\ p \notin peers => map[p].active = 0

\* The counted connections are a finite set.
LEMMA PairsAre ==
    ASSUME NEW peers, NEW map, Countable(peers, map)
    PROVE  /\ Pairs(peers, map) =
                 {x \in Peers \X (1..PerClientMax) : x[2] <= map[x[1]].active}
           /\ IsFiniteSet(Pairs(peers, map)) /\ Cardinality(Pairs(peers, map)) \in Nat
<1>1. ASSUME NEW x \in Pairs(peers, map)
      PROVE  x \in Peers \X (1..PerClientMax) /\ x[2] <= map[x[1]].active
  <2>1. PICK p \in peers : x \in {p} \X (1..map[p].active)
    BY <1>1 DEF Pairs
  <2>2. p \in Peers /\ map[p].active \in Nat /\ map[p].active <= PerClientMax
    BY DEF Countable, Entry
  <2>3. x[1] = p /\ x[2] \in 1..map[p].active /\ x = <<x[1], x[2]>>
    BY <2>1
  <2> QED
    BY <2>2, <2>3, LimitsInOrder
<1>2. ASSUME NEW x \in Peers \X (1..PerClientMax), x[2] <= map[x[1]].active
      PROVE  x \in Pairs(peers, map)
  <2>1. x = <<x[1], x[2]>> /\ x[1] \in Peers /\ x[2] \in 1..PerClientMax
    BY <1>2
  <2>2. x[2] \in 1..map[x[1]].active
    BY <1>2, <2>1, LimitsInOrder DEF Countable, Entry
  <2>3. x[1] \in peers
    BY <2>1, <2>2 DEF Countable
  <2> QED
    BY <2>1, <2>2, <2>3 DEF Pairs
<1>3. IsFiniteSet(Peers \X (1..PerClientMax))
  <2>1. 1 \in Int /\ PerClientMax \in Int
    BY LimitsInOrder
  <2>2. IsFiniteSet(1..PerClientMax)
    BY <2>1, FS_Interval
  <2> QED
    BY <2>2, FiniteInstance, FS_Product
<1>4. Pairs(peers, map) = {x \in Peers \X (1..PerClientMax) : x[2] <= map[x[1]].active}
  BY <1>1, <1>2
<1> QED
  BY <1>3, <1>4, FS_Subset, FS_CardinalityType

\* Only the counts matter.
LEMMA PairsSame ==
    ASSUME NEW peers, NEW map, Countable(peers, map),
           NEW peers2, NEW map2, Countable(peers2, map2),
           \A p \in Peers : map2[p].active = map[p].active
    PROVE  Cardinality(Pairs(peers2, map2)) = Cardinality(Pairs(peers, map))
<1>1. \A x \in Peers \X (1..PerClientMax) :
          x[2] <= map2[x[1]].active <=> x[2] <= map[x[1]].active
  OBVIOUS
<1>2. Pairs(peers2, map2) = Pairs(peers, map)
  <2>1. Pairs(peers, map) = {x \in Peers \X (1..PerClientMax) : x[2] <= map[x[1]].active}
    BY PairsAre
  <2>2. Pairs(peers2, map2) = {x \in Peers \X (1..PerClientMax) : x[2] <= map2[x[1]].active}
    BY PairsAre
  <2> QED
    BY <1>1, <2>1, <2>2
<1> QED
  BY <1>2

\* One count more is one pair more.
LEMMA PairsMore ==
    ASSUME NEW peers, NEW map, Countable(peers, map),
           NEW peers2, NEW map2, Countable(peers2, map2),
           NEW q \in Peers, map2[q].active = map[q].active + 1,
           \A p \in Peers \ {q} : map2[p].active = map[p].active
    PROVE  Cardinality(Pairs(peers2, map2)) = Cardinality(Pairs(peers, map)) + 1
<1> DEFINE n == map2[q].active
<1>1. map[q].active \in Nat /\ n = map[q].active + 1 /\ n \in 1..PerClientMax
  BY LimitsInOrder DEF Countable, Entry
<1>2. <<q, n>> \notin Pairs(peers, map)
  BY <1>1, PairsAre
<1>3. Pairs(peers2, map2) = Pairs(peers, map) \cup {<<q, n>>}
  <2>1. ASSUME NEW x \in Peers \X (1..PerClientMax)
        PROVE  x[2] <= map2[x[1]].active <=> (x[2] <= map[x[1]].active \/ x = <<q, n>>)
    <3>1. x[1] \in Peers /\ x[2] \in 1..PerClientMax /\ x = <<x[1], x[2]>>
      BY <2>1
    <3>2. map[x[1]].active \in Nat
      BY <3>1 DEF Countable, Entry
    <3>3. CASE x[1] = q
      BY <1>1, <3>1, <3>2, <3>3, LimitsInOrder
    <3>4. CASE x[1] # q
      BY <3>1, <3>4
    <3> QED
      BY <3>3, <3>4
  <2>2. <<q, n>> \in Peers \X (1..PerClientMax)
    BY <1>1
  <2> QED
    BY <2>1, <2>2, PairsAre
<1>4. IsFiniteSet(Pairs(peers, map))
  BY PairsAre
<1> HIDE DEF n
<1>5. Cardinality(Pairs(peers, map) \cup {<<q, n>>}) = Cardinality(Pairs(peers, map)) + 1
  BY <1>2, <1>4, FS_AddElement
<1> QED
  BY <1>3, <1>5

\* Who has a count has a pair.
LEMMA PairsSome ==
    ASSUME NEW peers, NEW map, Countable(peers, map), NEW q \in Peers, map[q].active > 0
    PROVE  Cardinality(Pairs(peers, map)) > 0
<1>1. <<q, 1>> \in Pairs(peers, map)
  <2>1. map[q].active \in Nat /\ 1 \in 1..PerClientMax /\ 1 <= map[q].active
    BY LimitsInOrder DEF Countable, Entry
  <2> QED
    BY <2>1, PairsAre
<1> QED
  BY <1>1, PairsAre, FS_EmptySet

\* The sum of the counts, as a number of pairs.
LEMMA CountedPairs ==
    /\ Counted = Cardinality(Pairs(known, entry))
    /\ Counted' = Cardinality(Pairs(known', entry'))
    /\ TypeOK /\ Exact => Countable(known, entry)
    /\ TypeOK' /\ Exact' => Countable(known', entry')
  BY DEF Counted, Pairs, Countable, TypeOK, Exact, NewEntry

-----------------------------------------------------------------------------
(* The connections at a point                                               *)

ConnState == [at : {"free", "open", "release", "settle"}, peer : Peers,
              age : 0..ConnTimeout]

\* The sets of connections are finite.
LEMMA ConnSets ==
    /\ \A a : IsFiniteSet(At(a)) /\ Cardinality(At(a)) \in Nat
    /\ \A p : IsFiniteSet(HeldBy(p)) /\ Cardinality(HeldBy(p)) \in Nat
<1>1. /\ \A a : IsFiniteSet(At(a))
      /\ \A p : IsFiniteSet(HeldBy(p))
  BY FiniteInstance, FS_Subset DEF At, HeldBy
<1> QED
  BY <1>1, FS_CardinalityType

\* One connection changes, and with it the sets it is in.
LEMMA ConnMoves ==
    ASSUME TypeOK, NEW k \in Conns, NEW r \in ConnState, conn' = [conn EXCEPT ![k] = r]
    PROVE  /\ conn' \in [Conns -> ConnState]
           /\ \A a : At(a)' = IF r.at = a THEN At(a) \cup {k} ELSE At(a) \ {k}
           /\ \A p : HeldBy(p)' = IF r.at \in {"open", "release"} /\ r.peer = p
                                  THEN HeldBy(p) \cup {k} ELSE HeldBy(p) \ {k}
<1>1. conn \in [Conns -> ConnState]
  BY DEF TypeOK, ConnState
<1>2. \A j \in Conns : conn'[j] = IF j = k THEN r ELSE conn[j]
  BY <1>1
<1> QED
  BY <1>1, <1>2 DEF At, HeldBy

\* It holds at the start.
LEMMA InitInv == Init => LimiterInv
<1> SUFFICES ASSUME Init PROVE LimiterInv
  OBVIOUS
<1>1. TypeOK
  BY LimitsInOrder DEF Init, TypeOK, Entry, NewEntry
<1>2. /\ At("open") = {} /\ At("settle") = {} /\ Pairs(known, entry) = {}
      /\ \A p : HeldBy(p) = {}
  BY DEF Init, At, HeldBy, Pairs
<1>3. Cardinality({}) = 0
  BY FS_EmptySet
<1>a. acc.at = "accept" /\ permits = MaxConnections /\ Admitting = 0
  BY DEF Init, Admitting
<1>4. NoPermitLost /\ OneHolder
  <2>1. Cardinality(At("open")) = 0 /\ Cardinality(At("settle")) = 0
    BY <1>2, <1>3
  <2> QED
    BY <1>a, <2>1, LimitsInOrder DEF NoPermitLost, OneHolder
<1>5. Exact
  <2>1. \A p \in Peers : Cardinality(HeldBy(p)) = 0 /\ BeingCounted(p) = 0
    BY <1>2, <1>3, <1>a DEF BeingCounted
  <2>2. \A p \in Peers : entry[p] = NewEntry /\ entry[p].active = 0
    BY DEF Init, NewEntry
  <2> QED
    BY <2>1, <2>2, LimitsInOrder DEF Exact
<1>6. Recent
  BY DEF Init, Recent, NewEntry
<1>7. Stamped
  BY LimitsInOrder DEF Init, Stamped, Sorted, NewEntry
<1>8. Drift
  BY <1>2, <1>3 DEF Init, Drift, Counted, Pairs, Admitting
<1> QED
  BY <1>1, <1>4, <1>5, <1>6, <1>7, <1>8 DEF LimiterInv

\* Steps that leave the clients' entries and the connections alone.
LEMMA EntriesStay ==
    ASSUME LimiterInv, TypeOK', UNCHANGED <<known, entry, conn, accepted>>,
           acc'.at # "refuse" \/ acc.at = "refuse",
           acc'.at # "count", acc.at # "count"
    PROVE  Exact' /\ Recent' /\ Stamped' /\ OneHolder'
<1>1. /\ \A a : At(a)' = At(a)
      /\ \A p : HeldBy(p)' = HeldBy(p) /\ BeingCounted(p)' = BeingCounted(p)
  BY DEF At, HeldBy, BeingCounted
<1>2. Exact'
  BY <1>1 DEF LimiterInv, Exact
<1>3. Recent' /\ Stamped'
  BY DEF LimiterInv, Recent, Stamped
<1>4. OneHolder'
  BY <1>1 DEF LimiterInv, OneHolder
<1> QED
  BY <1>2, <1>3, <1>4

\* A permit taken is with the connection being checked.
LEMMA AcceptInv ==
    ASSUME LimiterInv, NEW p \in Peers, Accept(p)
    PROVE  LimiterInv'
<1>1. At("open")' = At("open") /\ At("settle")' = At("settle") /\ Counted' = Counted
  BY DEF Accept, At, Counted
<1>2. acc.at = "accept" /\ acc' \in [at : {"check", "full"}, peer : {p}]
  BY DEF Accept
<1>3. NoPermitLost' /\ permits' \in 0..MaxConnections
  <2>1. permits \in 0..MaxConnections /\ Cardinality(At("open")) \in Nat
        /\ permits + Cardinality(At("open")) = MaxConnections
    BY <1>2, ConnSets, LimitsInOrder DEF LimiterInv, NoPermitLost, Admitting, TypeOK
  <2>2. \/ permits > 0 /\ permits' = permits - 1 /\ acc'.at = "check"
        \/ permits' = permits /\ acc'.at = "full"
    BY DEF Accept
  <2> QED
    BY <1>1, <2>1, <2>2, LimitsInOrder DEF NoPermitLost, Admitting
<1>4. TypeOK'
  BY <1>2, <1>3 DEF LimiterInv, TypeOK, Accept
<1>5. Exact' /\ Recent' /\ Stamped' /\ OneHolder'
  BY <1>2, <1>4, EntriesStay DEF Accept
<1>6. Drift'
  BY <1>1, <1>2 DEF LimiterInv, Drift, Accept, Admitting
<1> QED
  BY <1>3, <1>4, <1>5, <1>6 DEF LimiterInv

\* Counting a refusal lets the clients' mutex go.
LEMMA CountRefusedInv ==
    ASSUME LimiterInv, CountRefused
    PROVE  LimiterInv'
<1>1. At("open")' = At("open") /\ At("settle")' = At("settle") /\ Counted' = Counted
  BY DEF CountRefused, At, Counted
<1>2. acc.at \in {"full", "refuse"} /\ acc' = [acc EXCEPT !.at = "accept"] /\ acc'.at = "accept"
  BY DEF CountRefused, LimiterInv, TypeOK
<1>3. NoPermitLost'
  BY <1>1, <1>2 DEF LimiterInv, NoPermitLost, CountRefused, Admitting
<1>4. TypeOK'
  BY <1>2 DEF LimiterInv, TypeOK, CountRefused
<1>5. Exact' /\ Recent' /\ Stamped' /\ OneHolder'
  BY <1>2, <1>4, EntriesStay DEF CountRefused
<1>6. Drift'
  BY <1>1, <1>2 DEF LimiterInv, Drift, CountRefused, Admitting
<1> QED
  BY <1>3, <1>4, <1>5, <1>6 DEF LimiterInv

\* An admission adds the client, its count and its timestamp.
LEMMA AdmitInv ==
    ASSUME LimiterInv, Check, ~Refused(entry[acc.peer])
    PROVE  LimiterInv'
<1> DEFINE p == acc.peer
<1>1. /\ acc.at = "check" /\ p \in Peers /\ At("settle") = {}
      /\ known' = known \cup {p} /\ entry' = [entry EXCEPT ![p] = Record(entry[p])]
      /\ acc'.at = "count" /\ acc'.peer = p
      /\ accepted' = [accepted EXCEPT ![p] = Append(accepted[p], 0)]
      /\ UNCHANGED <<permits, active, conn, cleaner>>
  BY DEF Check, ClientsFree, LimiterInv, TypeOK
<1>2. entry[p].active < PerClientMax /\ Len(entry[p].stamps) < RateMax
  <2>1. entry[p].active \in Nat /\ Len(entry[p].stamps) \in Nat
    BY <1>1 DEF LimiterInv, TypeOK, Entry
  <2> QED
    BY <2>1, LimitsInOrder DEF Refused, RateLimited
<1>3. /\ entry[p].stamps = accepted[p] /\ accepted[p] \in Seq(0..RateWindow)
      /\ Sorted(accepted[p]) /\ entry[p] \in Entry
  BY <1>1 DEF LimiterInv, Stamped, TypeOK
<1>4. /\ Append(accepted[p], 0) \in Seq(0..RateWindow)
      /\ Len(Append(accepted[p], 0)) = Len(accepted[p]) + 1
      /\ Sorted(Append(accepted[p], 0))
  BY <1>3, AppendFacts
<1>5. /\ entry'[p] = [active |-> entry[p].active + 1, stamps |-> Append(accepted[p], 0),
                      idle |-> 0]
      /\ \A q \in Peers \ {p} : entry'[q] = entry[q]
  BY <1>1, <1>3 DEF Record, LimiterInv, TypeOK
<1>6. TypeOK'
  <2>1. entry' \in [Peers -> Entry]
    <3>1. entry[p].active + 1 \in Nat /\ 0 \in 0..(IdleTimeout + 1)
      BY <1>3, LimitsInOrder DEF Entry
    <3>2. entry'[p] \in Entry
      BY <1>4, <1>5, <3>1 DEF Entry
    <3> QED
      BY <1>1, <1>5, <3>2 DEF LimiterInv, TypeOK
  <2>2. accepted' \in [Peers -> Seq(0..RateWindow)]
    BY <1>1, <1>4 DEF LimiterInv, TypeOK
  <2>3. acc' \in [at : {"accept", "check", "full", "refuse", "count"}, peer : Peers]
    BY <1>1 DEF Check, LimiterInv, TypeOK
  <2> QED
    BY <1>1, <2>1, <2>2, <2>3 DEF LimiterInv, TypeOK
<1>7. /\ \A a : At(a)' = At(a)
      /\ \A q : HeldBy(q)' = HeldBy(q)
      /\ \A q : BeingCounted(q) = 0 /\ BeingCounted(q)' = IF q = p THEN 1 ELSE 0
  BY <1>1 DEF At, HeldBy, BeingCounted
<1>8. NoPermitLost'
  <2>1. permits \in Nat /\ Cardinality(At("open")) \in Nat
    BY ConnSets, LimitsInOrder DEF LimiterInv, TypeOK
  <2>2. permits + Cardinality(At("open")) + 0 + 1 = MaxConnections
    BY <1>1 DEF LimiterInv, NoPermitLost, Admitting
  <2> QED
    BY <1>1, <1>7, <2>1, <2>2 DEF NoPermitLost, Admitting
<1>9. Exact'
  <2>1. ASSUME NEW q \in Peers
        PROVE  /\ entry'[q].active = Cardinality(HeldBy(q)) + BeingCounted(q)'
               /\ entry'[q].active <= PerClientMax
    <3>1. /\ entry[q].active = Cardinality(HeldBy(q)) + BeingCounted(q)
          /\ entry[q].active <= PerClientMax /\ Cardinality(HeldBy(q)) \in Nat
      BY ConnSets DEF LimiterInv, Exact
    <3>2. CASE q = p
      <4>1. BeingCounted(q) = 0 /\ BeingCounted(q)' = 1
        BY <1>7, <3>2
      <4>2. entry'[q].active = entry[q].active + 1
        BY <1>5, <3>2
      <4>3. entry[q].active < PerClientMax
        BY <1>2, <1>3, <3>1, <3>2, LimitsInOrder DEF Entry
      <4> QED
        BY <3>1, <4>1, <4>2, <4>3, LimitsInOrder
    <3>3. CASE q # p
      <4>1. BeingCounted(q) = 0 /\ BeingCounted(q)' = 0 /\ entry'[q] = entry[q]
        BY <1>5, <1>7, <3>3
      <4> QED
        BY <3>1, <4>1
    <3> QED
      BY <3>2, <3>3
  <2> QED
    BY <1>1, <1>5, <1>7, <2>1 DEF LimiterInv, Exact
<1>10. Recent'
  <2>1. ASSUME NEW k \in Conns, conn[k].at \in {"open", "release"}
        PROVE  conn[k].peer \in known' /\ entry'[conn[k].peer].idle <= conn[k].age
    <3>1. conn[k].peer \in known /\ entry[conn[k].peer].idle <= conn[k].age
          /\ conn[k].peer \in Peers /\ conn[k].age \in 0..ConnTimeout
      BY <2>1 DEF LimiterInv, Recent, TypeOK
    <3> QED
      BY <1>1, <1>5, <3>1, LimitsInOrder
  <2>2. ASSUME NEW q \in Peers, NEW i \in DOMAIN entry'[q].stamps
        PROVE  entry'[q].idle <= entry'[q].stamps[i]
    <3>1. CASE q = p
      <4>1. entry'[q].stamps = Append(accepted[p], 0) /\ entry'[q].idle = 0
        BY <1>5, <3>1
      <4>2. entry'[q].stamps[i] \in 0..RateWindow
        BY <1>4, <2>2, <4>1, LimitsInOrder
      <4> QED
        BY <4>1, <4>2, LimitsInOrder
    <3>2. CASE q # p
      BY <1>5, <2>2, <3>2 DEF LimiterInv, Recent
    <3> QED
      BY <3>1, <3>2
  <2>3. acc'.peer \in known' /\ entry'[acc'.peer].idle = 0
    BY <1>1, <1>5
  <2> QED
    BY <1>1, <2>1, <2>2, <2>3 DEF Recent
<1>11. Stamped'
  <2>1. ASSUME NEW q \in Peers
        PROVE  /\ entry'[q].stamps = accepted'[q]
               /\ Len(accepted'[q]) <= RateMax
               /\ Sorted(accepted'[q])
    <3>1. CASE q = p
      BY <1>1, <1>2, <1>3, <1>4, <1>5, <3>1, LimitsInOrder DEF LimiterInv, TypeOK
    <3>2. CASE q # p
      BY <1>1, <1>5, <3>2 DEF LimiterInv, TypeOK, Stamped
    <3> QED
      BY <3>1, <3>2
  <2> QED
    BY <2>1 DEF Stamped
<1>12. OneHolder'
  BY <1>1, <1>7 DEF LimiterInv, OneHolder
<1>13. Drift'
  <2>1. Counted' = Counted + 1 /\ Counted \in Nat
    <3>1. Countable(known, entry) /\ Countable(known', entry')
      BY <1>6, <1>9, CountedPairs DEF LimiterInv
    <3>2. /\ entry'[p].active = entry[p].active + 1
          /\ \A q \in Peers \ {p} : entry'[q].active = entry[q].active
      BY <1>5
    <3>3. Cardinality(Pairs(known', entry')) = Cardinality(Pairs(known, entry)) + 1
      <4> DEFINE kn == known'
                 en == entry'
      <4>1. /\ Countable(kn, en) /\ en[p].active = entry[p].active + 1
            /\ \A q \in Peers \ {p} : en[q].active = entry[q].active
            /\ p \in Peers
        BY <1>1, <3>1, <3>2
      <4> HIDE DEF p, kn, en
      <4>2. Cardinality(Pairs(kn, en)) = Cardinality(Pairs(known, entry)) + 1
        BY <3>1, <4>1, PairsMore
      <4> QED
        BY <4>2 DEF kn, en
    <3>4. Cardinality(Pairs(known, entry)) \in Nat
      BY <3>1, PairsAre
    <3> QED
      BY <3>3, <3>4, CountedPairs
  <2>2. Admitting = 0 /\ Admitting' = 1 /\ active' = active
    BY <1>1 DEF Admitting
  <2> QED
    BY <1>7, <2>1, <2>2, ConnSets DEF LimiterInv, Drift, TypeOK
<1> QED
  BY <1>6, <1>8, <1>9, <1>10, <1>11, <1>12, <1>13 DEF LimiterInv

\* A refusal gives the permit back and at most adds the client.
LEMMA RefuseInv ==
    ASSUME LimiterInv, Check, Refused(entry[acc.peer])
    PROVE  LimiterInv'
<1>1. /\ acc.at = "check" /\ acc.peer \in Peers /\ At("settle") = {}
      /\ known' = known \cup {acc.peer} /\ acc'.at = "refuse" /\ acc'.peer = acc.peer
      /\ permits' = permits + 1
      /\ UNCHANGED <<entry, accepted, active, conn, cleaner>>
  BY DEF Check, ClientsFree, LimiterInv, TypeOK
<1>2. /\ \A a : At(a)' = At(a)
      /\ \A q : HeldBy(q)' = HeldBy(q) /\ BeingCounted(q) = 0 /\ BeingCounted(q)' = 0
  BY <1>1 DEF At, HeldBy, BeingCounted
<1>3. NoPermitLost' /\ permits' \in 0..MaxConnections
  <2>1. /\ permits \in 0..MaxConnections /\ Cardinality(At("open")) \in Nat
        /\ permits + Cardinality(At("open")) + 1 = MaxConnections
    BY <1>1, ConnSets, LimitsInOrder DEF LimiterInv, NoPermitLost, Admitting, TypeOK
  <2> QED
    BY <1>1, <1>2, <2>1, LimitsInOrder DEF NoPermitLost, Admitting
<1>4. TypeOK'
  <2>1. acc' \in [at : {"accept", "check", "full", "refuse", "count"}, peer : Peers]
    BY <1>1 DEF Check, LimiterInv, TypeOK
  <2> QED
    BY <1>1, <1>3, <2>1 DEF LimiterInv, TypeOK
<1>5. Exact'
  BY <1>1, <1>2 DEF LimiterInv, Exact
<1>6. Recent' /\ Stamped'
  BY <1>1 DEF LimiterInv, Recent, Stamped
<1>7. OneHolder'
  BY <1>1, <1>2 DEF LimiterInv, OneHolder
<1>8. Drift'
  <2>1. Counted' = Counted
    BY <1>1, <1>4, <1>5, CountedPairs, PairsSame DEF LimiterInv
  <2> QED
    BY <1>1, <1>2, <2>1 DEF LimiterInv, Drift, Admitting
<1> QED
  BY <1>3, <1>4, <1>5, <1>6, <1>7, <1>8 DEF LimiterInv

\* Both outcomes of a check: AdmitInv and RefuseInv.
LEMMA CheckInv == LimiterInv /\ Check => LimiterInv'
  BY AdmitInv, RefuseInv

\* The connection being counted becomes one that is handled.
LEMMA CountActiveInv ==
    ASSUME LimiterInv, CountActive
    PROVE  LimiterInv'
<1>1. PICK k \in At("free") :
         conn' = [conn EXCEPT ![k] = [at |-> "open", peer |-> acc.peer, age |-> 0]]
  BY DEF CountActive
<1> DEFINE p == acc.peer
           r == [at |-> "open", peer |-> p, age |-> 0]
<1>2. /\ acc.at = "count" /\ acc'.at = "accept" /\ active' = active + 1 /\ p \in Peers
      /\ UNCHANGED <<known, entry, permits, cleaner, accepted>>
      /\ k \in Conns /\ conn[k].at = "free" /\ r \in ConnState
  BY <1>1, LimitsInOrder DEF CountActive, LimiterInv, TypeOK, At, ConnState
<1>3. /\ conn' \in [Conns -> ConnState]
      /\ At("open")' = At("open") \cup {k} /\ At("settle")' = At("settle") \ {k}
      /\ \A q : HeldBy(q)' = IF q = p THEN HeldBy(q) \cup {k} ELSE HeldBy(q) \ {k}
  <2>1. /\ conn' \in [Conns -> ConnState]
        /\ \A a : At(a)' = IF r.at = a THEN At(a) \cup {k} ELSE At(a) \ {k}
        /\ \A q : HeldBy(q)' = IF r.at \in {"open", "release"} /\ r.peer = q
                               THEN HeldBy(q) \cup {k} ELSE HeldBy(q) \ {k}
    <3>1. conn' = [conn EXCEPT ![k] = r]
      BY <1>1
    <3>2. TypeOK /\ k \in Conns /\ r \in ConnState
      BY <1>2 DEF LimiterInv
    <3> HIDE DEF r
    <3> QED
      BY <3>1, <3>2, ConnMoves
  <2>2. r.at = "open" /\ r.peer = p
    OBVIOUS
  <2> HIDE DEF r
  <2> QED
    BY <2>1, <2>2
<1>4. k \notin At("open") /\ k \notin At("settle") /\ \A q : k \notin HeldBy(q)
  BY <1>2 DEF At, HeldBy
<1>5. /\ Cardinality(At("open")') = Cardinality(At("open")) + 1
      /\ At("settle")' = At("settle")
      /\ \A q : Cardinality(HeldBy(q)') = Cardinality(HeldBy(q)) + IF q = p THEN 1 ELSE 0
  <2>1. Cardinality(At("open") \cup {k}) = Cardinality(At("open")) + 1
    BY <1>4, ConnSets, FS_AddElement
  <2>2. \A q : Cardinality(HeldBy(q) \cup {k}) = Cardinality(HeldBy(q)) + 1
    BY <1>4, ConnSets, FS_AddElement
  <2>3. \A q : HeldBy(q) \ {k} = HeldBy(q)
    BY <1>4
  <2>4. ASSUME NEW q
        PROVE  Cardinality(HeldBy(q)') = Cardinality(HeldBy(q)) + IF q = p THEN 1 ELSE 0
    <3>1. CASE q = p
      BY <1>3, <2>2, <3>1
    <3>2. CASE q # p
      <4>1. HeldBy(q)' = HeldBy(q)
        BY <1>3, <2>3, <3>2
      <4>2. Cardinality(HeldBy(q)) \in Nat
        BY ConnSets
      <4> QED
        BY <3>2, <4>1, <4>2
    <3> QED
      BY <3>1, <3>2
  <2> QED
    BY <1>3, <1>4, <2>1, <2>4
<1>6. TypeOK'
  <2>1. acc' \in [at : {"accept", "check", "full", "refuse", "count"}, peer : Peers]
    BY DEF CountActive, LimiterInv, TypeOK
  <2> QED
    BY <1>2, <1>3, <2>1 DEF LimiterInv, TypeOK, ConnState
<1>7. NoPermitLost'
  <2>1. permits \in Nat /\ Cardinality(At("open")) \in Nat
    BY ConnSets, LimitsInOrder DEF LimiterInv, TypeOK
  <2>2. permits + Cardinality(At("open")) + 1 + 0 = MaxConnections
    BY <1>2 DEF LimiterInv, NoPermitLost, Admitting
  <2> QED
    BY <1>2, <1>5, <2>1, <2>2 DEF NoPermitLost, Admitting
<1>8. Exact'
  <2>1. \A q : BeingCounted(q)' = 0 /\ BeingCounted(q) = IF q = p THEN 1 ELSE 0
    BY <1>2 DEF BeingCounted
  <2> QED
    BY <1>2, <1>5, <2>1, ConnSets DEF LimiterInv, Exact
<1>9. Recent' /\ Stamped'
  <2>1. conn'[k] = r /\ \A j \in Conns \ {k} : conn'[j] = conn[j]
    BY <1>1, <1>2 DEF LimiterInv, TypeOK
  <2>2. p \in known /\ entry[p].idle = 0
    BY <1>2 DEF LimiterInv, Recent
  <2> QED
    BY <1>2, <2>1, <2>2 DEF LimiterInv, Recent, Stamped
<1>10. OneHolder'
  BY <1>2, <1>5 DEF LimiterInv, OneHolder
<1>11. Drift'
  <2>1. Counted' = Counted
    BY <1>2 DEF Counted
  <2> QED
    BY <1>2, <1>5, <2>1, ConnSets DEF LimiterInv, Drift, Admitting, TypeOK
<1> QED
  BY <1>6, <1>7, <1>8, <1>9, <1>10, <1>11 DEF LimiterInv

\* A closed connection gives its permit back and stays counted.
LEMMA CloseInv ==
    ASSUME LimiterInv, NEW k \in Conns, Close(k)
    PROVE  LimiterInv'
<1> DEFINE r == [conn[k] EXCEPT !.at = "release"]
<1>1. /\ conn[k].at = "open" /\ permits' = permits + 1
      /\ conn' = [conn EXCEPT ![k] = r]
      /\ UNCHANGED <<known, entry, active, acc, cleaner, accepted>>
      /\ r \in ConnState /\ r.at = "release" /\ r.peer = conn[k].peer /\ r.age = conn[k].age
  BY DEF Close, LimiterInv, TypeOK, ConnState
<1>2. /\ conn' \in [Conns -> ConnState]
      /\ At("open")' = At("open") \ {k} /\ At("settle")' = At("settle") \ {k}
      /\ \A q : HeldBy(q)' = IF r.peer = q THEN HeldBy(q) \cup {k} ELSE HeldBy(q) \ {k}
  <2>1. /\ conn' \in [Conns -> ConnState]
        /\ \A a : At(a)' = IF r.at = a THEN At(a) \cup {k} ELSE At(a) \ {k}
        /\ \A q : HeldBy(q)' = IF r.at \in {"open", "release"} /\ r.peer = q
                               THEN HeldBy(q) \cup {k} ELSE HeldBy(q) \ {k}
    <3>1. TypeOK /\ r \in ConnState /\ conn' = [conn EXCEPT ![k] = r]
      BY <1>1 DEF LimiterInv
    <3> HIDE DEF r
    <3> QED
      BY <3>1, ConnMoves
  <2> HIDE DEF r
  <2> QED
    BY <1>1, <2>1
<1>3. k \in At("open") /\ k \notin At("settle")
      /\ \A q : k \in HeldBy(q) <=> q = r.peer
  BY <1>1 DEF At, HeldBy
<1>4. At("settle")' = At("settle") /\ \A q : HeldBy(q)' = HeldBy(q)
  BY <1>2, <1>3
<1>5. Cardinality(At("open")') = Cardinality(At("open")) - 1
      /\ Cardinality(At("open")') \in Nat /\ Cardinality(At("open")) \in Nat
  <2>1. IsFiniteSet(At("open") \ {k})
        /\ Cardinality(At("open") \ {k}) = Cardinality(At("open")) - 1
    BY <1>3, ConnSets, FS_RemoveElement
  <2> QED
    BY <1>2, <2>1, ConnSets, FS_CardinalityType
<1>6. NoPermitLost' /\ permits' \in 0..MaxConnections
  <2>1. permits \in Nat /\ Admitting \in Nat
    BY LimitsInOrder DEF LimiterInv, TypeOK, Admitting
  <2>2. Admitting' = Admitting
    BY <1>1 DEF Admitting
  <2> QED
    BY <1>1, <1>5, <2>1, <2>2, LimitsInOrder DEF LimiterInv, NoPermitLost
<1>7. TypeOK'
  BY <1>1, <1>2, <1>6 DEF LimiterInv, TypeOK, ConnState
<1>8. Exact' /\ OneHolder'
  BY <1>1, <1>4 DEF LimiterInv, Exact, OneHolder, BeingCounted
<1>9. Recent' /\ Stamped'
  <2>1. conn'[k] = r /\ \A j \in Conns \ {k} : conn'[j] = conn[j]
    BY <1>1 DEF LimiterInv, TypeOK
  <2> QED
    BY <1>1, <2>1 DEF LimiterInv, Recent, Stamped
<1>10. Drift'
  BY <1>1, <1>4 DEF LimiterInv, Drift, Admitting, Counted
<1> QED
  BY <1>6, <1>7, <1>8, <1>9, <1>10 DEF LimiterInv

\* The count and the connection go together; the metric follows.
LEMMA ReleaseInv ==
    ASSUME LimiterInv, NEW k \in Conns, Release(k)
    PROVE  LimiterInv'
<1> DEFINE p == conn[k].peer
           r == [conn[k] EXCEPT !.at = "settle"]
<1>1. /\ conn[k].at = "release" /\ p \in Peers /\ p \in known /\ At("settle") = {}
      /\ acc.at # "refuse"
      /\ UNCHANGED <<known, permits, active, acc, cleaner, accepted>>
      /\ r \in ConnState /\ r.at = "settle" /\ r.peer = p
      /\ conn' = [conn EXCEPT ![k] = r]
      /\ conn'[k].at = "settle" /\ \A j \in Conns \ {k} : conn'[j] = conn[j]
  BY DEF Release, ClientsFree, LimiterInv, TypeOK, ConnState, Recent
<1>2. /\ entry' = [entry EXCEPT ![p] = Removed(entry[p])]
      /\ entry[p] \in Entry
      /\ \A q \in Peers \ {p} : entry'[q] = entry[q]
  BY <1>1 DEF Release, LimiterInv, TypeOK
<1>3. /\ conn' \in [Conns -> ConnState]
      /\ At("open")' = At("open") \ {k} /\ At("settle")' = At("settle") \cup {k}
      /\ \A q : HeldBy(q)' = HeldBy(q) \ {k}
  <2>1. TypeOK
    BY DEF LimiterInv
  <2>2. r \in ConnState /\ r.at = "settle" /\ conn' = [conn EXCEPT ![k] = r]
    BY <1>1
  <2> HIDE DEF r
  <2>3. /\ conn' \in [Conns -> ConnState]
        /\ \A a : At(a)' = IF r.at = a THEN At(a) \cup {k} ELSE At(a) \ {k}
        /\ \A q : HeldBy(q)' = IF r.at \in {"open", "release"} /\ r.peer = q
                               THEN HeldBy(q) \cup {k} ELSE HeldBy(q) \ {k}
    BY <2>1, <2>2, ConnMoves
  <2>4. At("open")' = At("open") \ {k} /\ At("settle")' = At("settle") \cup {k}
    BY <2>2, <2>3
  <2>5. \A q : HeldBy(q)' = HeldBy(q) \ {k}
    BY <2>2, <2>3
  <2> QED
    BY <2>3, <2>4, <2>5
<1>4. k \notin At("open") /\ \A q : k \in HeldBy(q) <=> q = p
  BY <1>1 DEF At, HeldBy
<1>5. /\ At("open")' = At("open") /\ At("settle")' = {k}
      /\ Cardinality(At("settle")') = 1 /\ Cardinality(At("settle")) = 0
      /\ \A q : q # p => HeldBy(q)' = HeldBy(q)
  <2>1. At("settle")' = {k} /\ At("open")' = At("open")
    <3>1. At("settle") = {}
      BY <1>1
    <3>2. At("open")' = At("open") \ {k} /\ At("settle")' = At("settle") \cup {k}
      BY <1>3
    <3>3. k \notin At("open")
      BY <1>4
    <3> QED
      BY <3>1, <3>2, <3>3
  <2>2. Cardinality({k}) = 1 /\ Cardinality({}) = 0
    BY FS_EmptySet, FS_Singleton
  <2>3. Cardinality(At("settle")') = 1 /\ Cardinality(At("settle")) = 0
    BY <1>1, <2>1, <2>2
  <2>4. \A q : q # p => HeldBy(q)' = HeldBy(q)
    BY <1>3, <1>4
  <2> QED
    BY <2>1, <2>3, <2>4
<1>6. /\ Cardinality(HeldBy(p)') = Cardinality(HeldBy(p)) - 1
      /\ Cardinality(HeldBy(p)') \in Nat /\ Cardinality(HeldBy(p)) \in Nat
  <2>1. /\ IsFiniteSet(HeldBy(p) \ {k})
        /\ Cardinality(HeldBy(p) \ {k}) = Cardinality(HeldBy(p)) - 1
    BY <1>4, ConnSets, FS_RemoveElement
  <2>2. HeldBy(p)' = HeldBy(p) \ {k}
    <3>1. conn'[k].peer = p
      BY <1>1
    <3> QED
      BY <1>1, <3>1 DEF HeldBy
  <2>3. Cardinality(HeldBy(p) \ {k}) \in Nat /\ Cardinality(HeldBy(p)) \in Nat
    BY <2>1, ConnSets, FS_CardinalityType
  <2> QED
    BY <2>1, <2>2, <2>3
<1>7. entry[p].active \in Nat /\ entry[p].active > 0
      /\ entry[p].active = Cardinality(HeldBy(p)) + BeingCounted(p)
  <2>1. BeingCounted(p) \in Nat
    BY DEF BeingCounted
  <2>2. entry[p].active = Cardinality(HeldBy(p)) + BeingCounted(p)
    BY <1>1 DEF LimiterInv, Exact
  <2> QED
    BY <1>6, <2>1, <2>2
<1>8. entry'[p] = [active |-> entry[p].active - 1, stamps |-> entry[p].stamps, idle |-> 0]
  BY <1>1, <1>2, <1>7 DEF Removed, LimiterInv, TypeOK
<1>9. TypeOK'
  <2>1. entry'[p] \in Entry
    BY <1>2, <1>7, <1>8, LimitsInOrder DEF Entry
  <2> QED
    BY <1>1, <1>2, <1>3, <2>1 DEF LimiterInv, TypeOK, ConnState
<1>10. NoPermitLost'
  BY <1>1, <1>5 DEF LimiterInv, NoPermitLost, Admitting
<1>11. Exact'
  <2>1. \A q : BeingCounted(q)' = BeingCounted(q) /\ BeingCounted(q) \in Nat
    BY <1>1 DEF BeingCounted
  <2>2. entry'[p].active = Cardinality(HeldBy(p)') + BeingCounted(p)'
        /\ entry'[p].active <= PerClientMax
    BY <1>1, <1>6, <1>7, <1>8, <2>1, LimitsInOrder DEF LimiterInv, Exact
  <2> QED
    BY <1>1, <1>2, <1>5, <2>1, <2>2 DEF LimiterInv, Exact
<1>12. Recent'
  <2>1. ASSUME NEW j \in Conns, conn'[j].at \in {"open", "release"}
        PROVE  conn'[j].peer \in known' /\ entry'[conn'[j].peer].idle <= conn'[j].age
    <3>1. j # k /\ conn'[j] = conn[j]
      BY <1>1, <2>1
    <3>2. conn[j].peer \in known /\ entry[conn[j].peer].idle <= conn[j].age
          /\ conn[j].peer \in Peers /\ conn[j].age \in 0..ConnTimeout
      BY <2>1, <3>1 DEF LimiterInv, Recent, TypeOK
    <3> QED
      BY <1>1, <1>2, <1>8, <3>1, <3>2, LimitsInOrder
  <2>2. ASSUME NEW q \in Peers, NEW i \in DOMAIN entry'[q].stamps
        PROVE  entry'[q].idle <= entry'[q].stamps[i]
    <3>1. CASE q = p
      <4>1. entry'[q].stamps = entry[p].stamps /\ entry'[q].idle = 0
            /\ entry[p].stamps \in Seq(0..RateWindow)
        BY <1>2, <1>8, <3>1 DEF Entry
      <4>2. entry[p].stamps[i] \in 0..RateWindow
        BY <2>2, <4>1, LimitsInOrder
      <4> QED
        BY <4>1, <4>2, LimitsInOrder
    <3>2. CASE q # p
      BY <1>2, <2>2, <3>2 DEF LimiterInv, Recent
    <3> QED
      BY <3>1, <3>2
  <2>3. acc'.at = "count" => acc'.peer \in known' /\ entry'[acc'.peer].idle = 0
    BY <1>1, <1>2, <1>8 DEF LimiterInv, Recent, TypeOK
  <2> QED
    BY <2>1, <2>2, <2>3 DEF Recent
<1>13. Stamped'
  BY <1>1, <1>2, <1>8 DEF LimiterInv, Stamped
<1>14. OneHolder'
  BY <1>1, <1>5 DEF OneHolder
<1>15. Drift'
  <2>1. Countable(known, entry) /\ Countable(known', entry')
    BY <1>9, <1>11, CountedPairs DEF LimiterInv
  <2>2. Counted = Counted' + 1 /\ Counted' \in Nat
    <3> DEFINE en == entry'
    <3>1. /\ Countable(known, en) /\ entry[p].active = en[p].active + 1
          /\ \A q \in Peers \ {p} : entry[q].active = en[q].active
          /\ p \in Peers
      BY <1>1, <1>2, <1>7, <1>8, <2>1
    <3> HIDE DEF p, en
    <3>2. Cardinality(Pairs(known, entry)) = Cardinality(Pairs(known, en)) + 1
          /\ Cardinality(Pairs(known, en)) \in Nat
      BY <2>1, <3>1, PairsMore, PairsAre
    <3> QED
      BY <1>1, <3>2, CountedPairs DEF en
  <2> QED
    BY <1>1, <1>5, <2>2 DEF LimiterInv, Drift, Admitting, TypeOK
<1> QED
  BY <1>9, <1>10, <1>11, <1>12, <1>13, <1>14, <1>15 DEF LimiterInv

\* The task that released a client's count settles the metric.
LEMMA SettleInv ==
    ASSUME LimiterInv, NEW k \in Conns, Settle(k)
    PROVE  LimiterInv'
<1> DEFINE r == [conn[k] EXCEPT !.at = "free"]
<1>1. /\ conn[k].at = "settle"
      /\ UNCHANGED <<known, entry, permits, acc, cleaner, accepted>>
      /\ active' = IF active > 0 THEN active - 1 ELSE 0
      /\ r \in ConnState /\ r.at = "free"
      /\ conn' = [conn EXCEPT ![k] = r]
      /\ conn'[k].at = "free" /\ \A j \in Conns \ {k} : conn'[j] = conn[j]
  BY DEF Settle, LimiterInv, TypeOK, ConnState
<1>2. /\ conn' \in [Conns -> ConnState]
      /\ At("open")' = At("open") \ {k} /\ At("settle")' = At("settle") \ {k}
      /\ \A q : HeldBy(q)' = HeldBy(q) \ {k}
  <2>1. TypeOK /\ r \in ConnState /\ r.at = "free" /\ conn' = [conn EXCEPT ![k] = r]
    BY <1>1 DEF LimiterInv
  <2> HIDE DEF r
  <2>2. /\ conn' \in [Conns -> ConnState]
        /\ \A a : At(a)' = IF r.at = a THEN At(a) \cup {k} ELSE At(a) \ {k}
        /\ \A q : HeldBy(q)' = IF r.at \in {"open", "release"} /\ r.peer = q
                               THEN HeldBy(q) \cup {k} ELSE HeldBy(q) \ {k}
    BY <2>1, ConnMoves
  <2> QED
    BY <2>1, <2>2
<1>3. k \notin At("open") /\ k \in At("settle") /\ \A q : k \notin HeldBy(q)
  BY <1>1 DEF At, HeldBy
<1>4. At("open")' = At("open") /\ \A q : HeldBy(q)' = HeldBy(q)
  BY <1>2, <1>3
<1>5. /\ Cardinality(At("settle")) = 1 /\ Cardinality(At("settle")') = 0
      /\ At("settle")' = {}
  <2>1. /\ IsFiniteSet(At("settle") \ {k})
        /\ Cardinality(At("settle") \ {k}) = Cardinality(At("settle")) - 1
    BY <1>3, ConnSets, FS_RemoveElement
  <2>2. Cardinality(At("settle") \ {k}) \in Nat /\ Cardinality(At("settle")) <= 1
    BY <2>1, FS_CardinalityType DEF LimiterInv, OneHolder
  <2>3. Cardinality(At("settle")) = 1 /\ Cardinality(At("settle") \ {k}) = 0
    BY <2>1, <2>2, ConnSets
  <2> QED
    BY <1>2, <2>1, <2>3, FS_EmptySet
<1>6. TypeOK' /\ active \in Nat
  BY <1>1, <1>2 DEF LimiterInv, TypeOK, ConnState
<1>7. NoPermitLost' /\ Exact' /\ OneHolder' /\ Stamped'
  BY <1>1, <1>4, <1>5
  DEF LimiterInv, NoPermitLost, Exact, OneHolder, Stamped, Admitting, BeingCounted
<1>8. Recent'
  BY <1>1 DEF LimiterInv, Recent
<1>9. Drift'
  <2>1. Counted' = Counted /\ Counted \in Nat /\ Admitting' = Admitting
    BY <1>1, CountedPairs, PairsAre DEF LimiterInv, Counted, Admitting
  <2>2. Admitting \in {0, 1} /\ (Admitting = 1 => Counted > 0)
    <3>1. Admitting = 1 => acc.peer \in Peers /\ entry[acc.peer].active > 0
      BY ConnSets DEF LimiterInv, Exact, TypeOK, Admitting, BeingCounted
    <3> QED
      BY <3>1, CountedPairs, PairsSome DEF LimiterInv, Admitting
  <2> QED
    BY <1>1, <1>5, <1>6, <2>1, <2>2 DEF LimiterInv, Drift
<1> QED
  BY <1>6, <1>7, <1>8, <1>9 DEF LimiterInv

\* The cleanup task's steps that only move it.
LEMMA CleanerMoves ==
    ASSUME LimiterInv, Wake \/ Measure
    PROVE  LimiterInv'
<1>1. UNCHANGED <<known, entry, permits, active, acc, conn, accepted>>
      /\ cleaner' \in {"forget", "sum"}
  BY DEF Wake, Measure
<1>2. TypeOK'
  BY <1>1 DEF LimiterInv, TypeOK
<1>3. NoPermitLost' /\ Exact' /\ OneHolder' /\ Drift'
  BY <1>1 DEF LimiterInv, NoPermitLost, Exact, OneHolder, Drift, Admitting, BeingCounted,
              HeldBy, At, Counted
<1>4. Recent' /\ Stamped'
  BY <1>1 DEF LimiterInv, Recent, Stamped
<1> QED
  BY <1>2, <1>3, <1>4 DEF LimiterInv

\* The cleanup task sets the metric to the sum.
LEMMA SumUpInv ==
    ASSUME LimiterInv, SumUp
    PROVE  LimiterInv'
<1>1. UNCHANGED <<known, entry, permits, acc, conn, accepted>> /\ cleaner' = "sleep"
      /\ active' = Counted /\ At("settle") = {}
  BY DEF SumUp, ClientsFree
<1>2. Counted \in Nat
  BY CountedPairs, PairsAre DEF LimiterInv
<1>3. TypeOK'
  BY <1>1, <1>2 DEF LimiterInv, TypeOK
<1>4. NoPermitLost' /\ Exact' /\ OneHolder'
  BY <1>1 DEF LimiterInv, NoPermitLost, Exact, OneHolder, Admitting, BeingCounted,
              HeldBy, At
<1>5. Recent' /\ Stamped'
  BY <1>1 DEF LimiterInv, Recent, Stamped
<1>6. Drift'
  <2>1. Counted' = Counted /\ At("settle")' = {} /\ Cardinality({}) = 0
    BY <1>1, FS_EmptySet DEF Counted, At
  <2>2. Cardinality(At("settle")') = 0
    BY <2>1
  <2>3. Admitting' \in {0, 1}
    BY DEF Admitting
  <2> QED
    BY <1>1, <1>2, <2>1, <2>2, <2>3 DEF Drift
<1> QED
  BY <1>3, <1>4, <1>5, <1>6 DEF LimiterInv

\* Who is forgotten has no connection and no timestamp in the window.
LEMMA ForgetInv ==
    ASSUME LimiterInv, Forget
    PROVE  LimiterInv'
<1>1. /\ UNCHANGED <<permits, active, acc, conn, accepted>> /\ cleaner' = "measure"
      /\ known' = {p \in known : entry[p].idle <= IdleTimeout}
      /\ entry' = [p \in Peers |-> IF p \in known' THEN entry[p] ELSE NewEntry]
      /\ known' \subseteq known /\ known \subseteq Peers
  BY DEF Forget, Keep, LimiterInv, TypeOK
<1>2. /\ \A a : At(a)' = At(a)
      /\ \A q : HeldBy(q)' = HeldBy(q) /\ BeingCounted(q)' = BeingCounted(q)
      /\ Admitting' = Admitting
  BY <1>1 DEF At, HeldBy, BeingCounted, Admitting
<1>3. ASSUME NEW p \in known, p \notin known'
      PROVE  HeldBy(p) = {} /\ BeingCounted(p) = 0 /\ entry[p].stamps = <<>>
  <2>1. entry[p] \in Entry /\ p \in Peers /\ entry[p].idle \in Nat
        /\ entry[p].idle > IdleTimeout
    BY <1>1, <1>3, LimitsInOrder DEF LimiterInv, TypeOK, Entry
  <2>2. \A k \in Conns : conn[k].age \in 0..ConnTimeout
    BY DEF LimiterInv, TypeOK
  <2>3. HeldBy(p) = {}
    BY <2>1, <2>2, LimitsInOrder DEF HeldBy, LimiterInv, Recent
  <2>4. BeingCounted(p) = 0
    BY <2>1, LimitsInOrder DEF BeingCounted, LimiterInv, Recent
  <2>5. entry[p].stamps \in Seq(0..RateWindow)
    BY <2>1 DEF Entry
  <2>6. \A i \in DOMAIN entry[p].stamps : entry[p].stamps[i] \in 0..RateWindow
    BY <2>5, LimitsInOrder
  <2>7. DOMAIN entry[p].stamps = {}
    BY <2>1, <2>6, LimitsInOrder DEF LimiterInv, Recent
  <2>8. entry[p].stamps = <<>>
    BY <2>5, <2>7, NoIndex
  <2> QED
    BY <2>3, <2>4, <2>5, <2>8
<1>4. ASSUME NEW p \in Peers
      PROVE  \/ entry'[p] = entry[p]
             \/ /\ entry'[p] = NewEntry /\ p \notin known'
                /\ HeldBy(p) = {} /\ BeingCounted(p) = 0
                /\ entry[p].stamps = <<>> /\ entry[p].active = 0
  <2>1. CASE p \in known'
    BY <1>1, <2>1
  <2>2. CASE p \notin known
    BY <1>1, <2>2 DEF LimiterInv, Exact
  <2>3. CASE p \in known /\ p \notin known'
    <3>1. HeldBy(p) = {} /\ BeingCounted(p) = 0 /\ entry[p].stamps = <<>>
      BY <1>3, <2>3
    <3>2. Cardinality(HeldBy(p)) = 0
      BY <3>1, FS_EmptySet
    <3>3. entry[p].active = Cardinality(HeldBy(p)) + BeingCounted(p)
      BY DEF LimiterInv, Exact
    <3>4. entry[p].active = 0
      BY <3>1, <3>2, <3>3
    <3> QED
      BY <1>1, <2>3, <3>1, <3>4
  <2> QED
    BY <2>1, <2>2, <2>3
<1>5. NewEntry \in Entry /\ NewEntry.active = 0 /\ NewEntry.stamps = <<>>
  BY LimitsInOrder DEF NewEntry, Entry
<1>6. TypeOK'
  <2>1. entry' \in [Peers -> Entry]
    BY <1>1, <1>5 DEF LimiterInv, TypeOK
  <2> QED
    BY <1>1, <2>1 DEF LimiterInv, TypeOK
<1>7. NoPermitLost' /\ OneHolder'
  BY <1>1, <1>2 DEF LimiterInv, NoPermitLost, OneHolder
<1>8. Exact'
  <2>1. \A p \in Peers : entry'[p].active = entry[p].active
    BY <1>4, <1>5
  <2>2. \A p \in Peers : p \notin known' => entry'[p] = NewEntry
    BY <1>1
  <2> QED
    BY <1>2, <2>1, <2>2 DEF LimiterInv, Exact
<1>9. Recent'
  <2>1. ASSUME NEW k \in Conns, conn[k].at \in {"open", "release"}
        PROVE  conn[k].peer \in known' /\ entry'[conn[k].peer].idle <= conn[k].age
    <3>1. k \in HeldBy(conn[k].peer) /\ conn[k].peer \in Peers
      BY <2>1 DEF HeldBy, LimiterInv, TypeOK
    <3>2. conn[k].peer \in known /\ entry[conn[k].peer].idle <= conn[k].age
      BY <2>1 DEF LimiterInv, Recent
    <3>3. conn[k].peer \in known'
      BY <1>3, <3>1, <3>2
    <3> QED
      BY <1>1, <3>1, <3>2, <3>3
  <2>2. acc.at = "count" => acc.peer \in known' /\ entry'[acc.peer].idle = 0
    BY <1>1, LimitsInOrder DEF LimiterInv, Recent
  <2>3. ASSUME NEW p \in Peers, NEW i \in DOMAIN entry'[p].stamps
        PROVE  entry'[p].idle <= entry'[p].stamps[i]
    BY <1>4, <1>5, <2>3 DEF LimiterInv, Recent
  <2> QED
    BY <1>1, <2>1, <2>2, <2>3 DEF Recent
<1>10. Stamped'
  <2>1. \A p \in Peers : entry'[p].stamps = entry[p].stamps
    BY <1>4, <1>5
  <2> QED
    BY <1>1, <2>1 DEF LimiterInv, Stamped
<1>11. Drift'
  <2>1. Countable(known, entry) /\ Countable(known', entry')
    BY <1>6, <1>8, CountedPairs DEF LimiterInv
  <2>2. \A p \in Peers : entry'[p].active = entry[p].active
    BY <1>4, <1>5
  <2>3. Counted' = Counted
    BY <2>1, <2>2, CountedPairs, PairsSame
  <2> QED
    BY <1>1, <1>2, <2>3 DEF LimiterInv, Drift
<1> QED
  BY <1>6, <1>7, <1>8, <1>9, <1>10, <1>11 DEF LimiterInv

\* Everything ages alike.
LEMMA TickInv ==
    ASSUME LimiterInv, Tick
    PROVE  LimiterInv'
<1>1. /\ UNCHANGED <<known, permits, active, acc, cleaner>>
      /\ acc.at = "accept" /\ At("release") = {} /\ At("settle") = {}
      /\ \A k \in At("open") : conn[k].age < ConnTimeout
      /\ conn' = [k \in Conns |-> IF conn[k].at = "open" THEN [conn[k] EXCEPT !.age = @ + 1]
                                                         ELSE conn[k]]
      /\ entry' = [p \in Peers |-> IF p \in known THEN Aged(entry[p]) ELSE entry[p]]
      /\ accepted' = [p \in Peers |-> Older(accepted[p])]
  BY DEF Tick, Quiet
<1>2. ASSUME NEW k \in Conns
      PROVE  /\ conn'[k] \in ConnState
             /\ conn'[k].at = conn[k].at /\ conn'[k].peer = conn[k].peer
             /\ conn[k].at = "open" => conn'[k].age = conn[k].age + 1
             /\ conn[k].at # "release"
             /\ conn[k].age \in Nat
  <2>1. conn[k] \in ConnState
    BY DEF LimiterInv, TypeOK, ConnState
  <2>2. CASE conn[k].at = "open"
    <3>1. conn[k].age + 1 \in 0..ConnTimeout
      BY <1>1, <2>1, <2>2, LimitsInOrder DEF At, ConnState
    <3> QED
      BY <1>1, <2>1, <2>2, <3>1 DEF ConnState
  <2>3. CASE conn[k].at # "open"
    BY <1>1, <2>1, <2>3 DEF ConnState, At
  <2> QED
    BY <2>2, <2>3
<1>3. /\ \A a : At(a)' = At(a)
      /\ \A q : HeldBy(q)' = HeldBy(q) /\ BeingCounted(q)' = BeingCounted(q)
      /\ Admitting' = Admitting
  BY <1>1, <1>2 DEF At, HeldBy, BeingCounted, Admitting
<1>4. ASSUME NEW p \in Peers
      PROVE  /\ entry[p] \in Entry /\ entry[p].stamps = accepted[p]
             /\ accepted[p] \in Seq(0..RateWindow) /\ Sorted(accepted[p])
             /\ Len(accepted[p]) <= RateMax
  BY DEF LimiterInv, TypeOK, Stamped
<1>5. ASSUME NEW p \in Peers
      PROVE  /\ Older(accepted[p]) \in Seq(0..RateWindow)
             /\ Len(Older(accepted[p])) <= RateMax
             /\ Sorted(Older(accepted[p]))
             /\ \A i \in DOMAIN Older(accepted[p]) : \E j \in DOMAIN accepted[p] :
                    Older(accepted[p])[i] = accepted[p][j] + 1
  <2>1. Len(Older(accepted[p])) <= Len(accepted[p])
        /\ Older(accepted[p]) \in Seq(0..RateWindow)
    BY <1>4, OlderFacts
  <2>2. Len(Older(accepted[p])) <= RateMax
    BY <1>4, <2>1, LimitsInOrder
  <2> QED
    BY <1>4, <2>1, <2>2, OlderFacts
<1>6. ASSUME NEW p \in Peers, p \in known
      PROVE  /\ entry'[p] \in Entry
             /\ entry'[p].active = entry[p].active
             /\ entry'[p].stamps = Older(accepted[p])
             /\ entry'[p].idle <= entry[p].idle + 1
             /\ entry[p].idle \in Nat /\ entry'[p].idle \in Nat
  <2>1. entry'[p] = Aged(entry[p])
    BY <1>1, <1>6
  <2>2. entry[p].idle \in 0..(IdleTimeout + 1) /\ entry[p].active \in Nat
    BY <1>4 DEF Entry
  <2> DEFINE older == IF entry[p].idle > IdleTimeout THEN entry[p].idle
                                                   ELSE entry[p].idle + 1
  <2>3. entry'[p] = [active |-> entry[p].active, stamps |-> Older(accepted[p]),
                     idle |-> older]
    BY <1>4, <2>1 DEF Aged
  <2>4. older \in 0..(IdleTimeout + 1) /\ older <= entry[p].idle + 1
    BY <2>2, LimitsInOrder
  <2> HIDE DEF older
  <2>5. entry'[p] \in Entry
    BY <1>5, <2>2, <2>3, <2>4 DEF Entry
  <2>6. /\ entry'[p].active = entry[p].active /\ entry'[p].idle = older
        /\ entry'[p].stamps = Older(accepted[p])
    BY <2>3
  <2> QED
    BY <2>2, <2>4, <2>5, <2>6, LimitsInOrder
<1>7. ASSUME NEW p \in Peers, p \notin known
      PROVE  entry'[p] = entry[p] /\ accepted[p] = <<>> /\ Older(accepted[p]) = <<>>
  <2>1. entry'[p] = entry[p] /\ accepted[p] = <<>>
    BY <1>1, <1>4, <1>7 DEF LimiterInv, Exact, NewEntry
  <2>2. DOMAIN accepted[p] = {}
    BY <2>1
  <2>3. DOMAIN Older(accepted[p]) = {}
    BY <1>5, <2>2
  <2> QED
    BY <1>5, <2>1, <2>3, NoIndex
<1>8. TypeOK'
  <2>1. \A p \in Peers : entry'[p] \in Entry
    <3> SUFFICES ASSUME NEW p \in Peers PROVE entry'[p] \in Entry
      OBVIOUS
    <3>1. CASE p \in known
      BY <1>6, <3>1
    <3>2. CASE p \notin known
      BY <1>4, <1>7, <3>2
    <3> QED
      BY <3>1, <3>2
  <2>2. entry' \in [Peers -> Entry] /\ conn' \in [Conns -> ConnState]
        /\ accepted' \in [Peers -> Seq(0..RateWindow)]
    BY <1>1, <1>2, <1>5, <2>1
  <2> QED
    BY <1>1, <2>2 DEF LimiterInv, TypeOK, ConnState
<1>9. NoPermitLost' /\ OneHolder'
  BY <1>1, <1>3 DEF LimiterInv, NoPermitLost, OneHolder
<1>a. \A p \in Peers : entry'[p].active = entry[p].active
  BY <1>6, <1>7
<1>10. Exact'
  BY <1>1, <1>3, <1>7, <1>a DEF LimiterInv, Exact
<1>11. Recent'
  <2>1. ASSUME NEW k \in Conns, conn'[k].at \in {"open", "release"}
        PROVE  conn'[k].peer \in known' /\ entry'[conn'[k].peer].idle <= conn'[k].age
    <3>1. conn[k].at = "open" /\ conn'[k].peer = conn[k].peer
          /\ conn'[k].age = conn[k].age + 1 /\ conn[k].age \in Nat
      BY <1>2, <2>1
    <3>2. conn[k].peer \in known /\ entry[conn[k].peer].idle <= conn[k].age
      BY <3>1 DEF LimiterInv, Recent
    <3>3. entry[conn[k].peer].idle \in Nat /\ entry'[conn[k].peer].idle \in Nat
      <4>1. conn[k].peer \in Peers /\ conn[k].peer \in known
        BY <3>2 DEF LimiterInv, TypeOK
      <4> QED
        BY <1>6, <4>1
    <3>4. entry'[conn[k].peer].idle <= entry[conn[k].peer].idle + 1
      <4>1. conn[k].peer \in Peers /\ conn[k].peer \in known
        BY <3>2 DEF LimiterInv, TypeOK
      <4> QED
        BY <1>6, <4>1
    <3> QED
      BY <1>1, <3>1, <3>2, <3>3, <3>4
  <2>2. ASSUME NEW p \in Peers, NEW i \in DOMAIN entry'[p].stamps
        PROVE  entry'[p].idle <= entry'[p].stamps[i]
    <3>1. CASE p \in known
      <4>1. entry'[p].stamps = Older(accepted[p])
        BY <1>6, <3>1
      <4>2. PICK j \in DOMAIN accepted[p] : entry'[p].stamps[i] = accepted[p][j] + 1
        BY <1>5, <2>2, <4>1
      <4>3. entry[p].idle <= accepted[p][j] /\ accepted[p][j] \in Nat
        BY <1>4, <4>2, LimitsInOrder DEF LimiterInv, Recent
      <4>4. entry[p].idle \in Nat /\ entry'[p].idle \in Nat
        BY <1>6, <3>1
      <4> QED
        BY <1>6, <3>1, <4>2, <4>3, <4>4
    <3>2. CASE p \notin known
      BY <1>7, <2>2, <3>2 DEF LimiterInv, Recent
    <3> QED
      BY <3>1, <3>2
  <2> QED
    BY <1>1, <2>1, <2>2 DEF Recent
<1>12. Stamped'
  <2>1. \A p \in Peers : entry'[p].stamps = accepted'[p]
    BY <1>1, <1>4, <1>6, <1>7
  <2> QED
    BY <1>1, <1>5, <2>1 DEF Stamped
<1>13. Drift'
  <2>1. Countable(known, entry) /\ Countable(known', entry')
    BY <1>8, <1>10, CountedPairs DEF LimiterInv
  <2>2. Counted' = Counted
    BY <1>a, <2>1, CountedPairs, PairsSame
  <2> QED
    BY <1>1, <1>3, <2>2 DEF LimiterInv, Drift
<1> QED
  BY <1>8, <1>9, <1>10, <1>11, <1>12, <1>13 DEF LimiterInv

-----------------------------------------------------------------------------
\* Every step, the one that changes nothing included, keeps the invariant.
LEMMA NextInv ==
    LimiterInv /\ [Next]_vars => LimiterInv'
<1> SUFFICES ASSUME LimiterInv, [Next]_vars PROVE LimiterInv'
  OBVIOUS
<1>1. CASE \E p \in Peers : Accept(p)
  BY <1>1, AcceptInv
<1>2. CASE AcceptLoop
  BY <1>2, CheckInv, CountRefusedInv, CountActiveInv DEF AcceptLoop
<1>3. CASE \E k \in Conns : Close(k) \/ Task(k)
  BY <1>3, CloseInv, ReleaseInv, SettleInv DEF Task
<1>4. CASE Wake \/ Cleaning
  BY <1>4, CleanerMoves, ForgetInv, SumUpInv DEF Cleaning
<1>5. CASE Tick
  BY <1>5, TickInv
<1>6. CASE UNCHANGED vars
  <2>1. /\ UNCHANGED <<known, entry, permits, active, acc, conn, cleaner, accepted>>
        /\ \A a : At(a)' = At(a)
        /\ \A p : HeldBy(p)' = HeldBy(p)
    BY <1>6 DEF vars, At, HeldBy
  <2>2. Counted' = Counted /\ Admitting' = Admitting
        /\ \A p : BeingCounted(p)' = BeingCounted(p)
    BY <2>1 DEF Counted, Admitting, BeingCounted
  <2>3. TypeOK' /\ NoPermitLost'
    BY <2>1, <2>2 DEF LimiterInv, TypeOK, NoPermitLost
  <2>4. Exact' /\ OneHolder' /\ Drift'
    BY <2>1, <2>2 DEF LimiterInv, Exact, OneHolder, Drift
  <2>5. Recent' /\ Stamped'
    BY <2>1 DEF LimiterInv, Recent, Stamped
  <2> QED
    BY <2>3, <2>4, <2>5 DEF LimiterInv
<1> QED
  BY <1>1, <1>2, <1>3, <1>4, <1>5, <1>6, Zenon DEF Next

\* The limiter keeps the invariant forever.
LEMMA LimiterAlways == Spec => []LimiterInv
BY InitInv, NextInv, PTL DEF Spec

\* Every variable of the limiter keeps its type; a permit is never given back that
\* nobody took (NoPermitLost is what keeps permits within MaxConnections).
THEOREM LimiterTypes == Spec => []TypeOK
<1>1. LimiterInv => TypeOK
  BY DEF LimiterInv
<1> QED
  BY <1>1, LimiterAlways, PTL

\* Each permit of the semaphore is free, with a connection, or with the one being
\* checked: no refusal, error or timeout loses one or frees one twice.
THEOREM LimiterPermits == Spec => []NoPermitLost
<1>1. LimiterInv => NoPermitLost
  BY DEF LimiterInv
<1> QED
  BY <1>1, LimiterAlways, PTL

\* No client has more connections than max_connections_per_client, although counts
\* are released late and the cleanup task forgets clients.
THEOREM LimiterPerClient == Spec => []PerClientBounded
<1>1. LimiterInv => PerClientBounded
  <2> SUFFICES ASSUME LimiterInv, NEW p \in Peers PROVE AdmittedOf(p) <= PerClientMax
    BY DEF PerClientBounded
  <2> DEFINE open == {k \in At("open") : conn[k].peer = p}
  <2>1. open \subseteq HeldBy(p)
    BY DEF At, HeldBy
  <2>2. IsFiniteSet(HeldBy(p)) /\ Cardinality(HeldBy(p)) \in Nat
    BY ConnSets, FS_CardinalityType
  <2>3. Cardinality(open) \in Nat /\ Cardinality(open) <= Cardinality(HeldBy(p))
    BY <2>1, <2>2, FS_Subset, FS_CardinalityType
  <2>4. Cardinality(HeldBy(p)) + BeingCounted(p) <= PerClientMax
    BY DEF LimiterInv, Exact
  <2>5. AdmittedOf(p) = Cardinality(open) + BeingCounted(p) /\ BeingCounted(p) \in Nat
    BY DEF AdmittedOf, BeingCounted
  <2> QED
    BY <2>2, <2>3, <2>4, <2>5, LimitsInOrder
<1> QED
  BY <1>1, LimiterAlways, PTL

\* No client is admitted more than rate_limit_max times within a window, although
\* the cleanup task forgets its timestamps.
THEOREM LimiterRate == Spec => []RateBounded
<1>1. LimiterInv => RateBounded
  BY DEF LimiterInv, Stamped, RateBounded
<1> QED
  BY <1>1, LimiterAlways, PTL

\* Both limits on one client hold always.
THEOREM LimiterClients == Spec => []ClientsBounded
  BY LimiterPerClient, LimiterRate, PTL DEF ClientsBounded

\* While nobody is inside the clients' mutex, active_connections and the sum of the
\* clients' counts differ by one at most.
THEOREM LimiterMetrics == Spec => []MetricsClose
<1>1. LimiterInv => MetricsClose
  <2> SUFFICES ASSUME LimiterInv, ClientsFree
               PROVE  active <= Counted + 1 /\ Counted <= active + 1
    BY DEF MetricsClose
  <2>1. Cardinality(At("settle")) = 0
    BY FS_EmptySet DEF ClientsFree
  <2>2. Counted \in Nat /\ active \in Nat
    BY CountedPairs, PairsAre DEF LimiterInv, TypeOK
  <2>3. Admitting \in {0, 1}
    BY DEF Admitting
  <2> QED
    BY <2>1, <2>2, <2>3 DEF LimiterInv, Drift
<1> QED
  BY <1>1, LimiterAlways, PTL
=============================================================================
