--------------------------- MODULE SecurityProofs ---------------------------
(* Proofs about parts of the security library, each for any number of tasks:      *)
(* messages, sessions and the stream of a socket; credentials in a key store, in  *)
(* files and under derived keys; the registration of a mount; what the integrity  *)
(* checker and the dashboard report; update packages and the secured              *)
(* configuration.                                                                 *)
EXTENDS SecureSocket, HardwareCredentials, CredentialStore, KeyDerivation, SealedStore,
        MountIntegrity, RuntimeIntegrity, SecurityDashboard, SecureUpdates, ConfigSecurity,
        FiniteSetTheorems, SequenceTheorems, TLAPS

(* MountIntegrity: what is about to be mounted on request is registered.        *)

IntegrityInv ==
  /\ MountedIsWatched
  /\ handler.at = "mount" => registered.is \/ lapses # {}
  /\ registered.is =>
       registered = [is |-> TRUE, hash |-> registered.hash, old |-> registered.old]

\* For any times of the directory: a share mounted on request is registered unless
\* its directory vanished meanwhile or the daemon restarted (daemon/mod.rs:1264-1284).
THEOREM MountedStayWatched == IntegritySpec => []MountedIsWatched
<1>1. IntegrityInit => IntegrityInv
  BY DEF IntegrityInit, IntegrityInv, MountedIsWatched, Idle, Unregistered
<1>2. IntegrityInv /\ [IntegrityNext]_IntegrityVars => IntegrityInv'
  <2> SUFFICES ASSUME IntegrityInv, [IntegrityNext]_IntegrityVars PROVE IntegrityInv'
    OBVIOUS
  <2> USE DEF IntegrityInv, MountedIsWatched, Idle
  <2>1. ASSUME NEW time, NEW name, TouchDir(time, name) PROVE IntegrityInv'
    BY <2>1 DEF TouchDir
  <2>2. ASSUME NEW dry, NEW safe, HandlerValidates(dry, safe) PROVE IntegrityInv'
    BY <2>2 DEF HandlerValidates
  <2>3. CASE RegisterReads
    BY <2>3 DEF RegisterReads, Then
  <2>4. CASE RegisterInserts
    BY <2>4 DEF RegisterInserts
  <2>5. ASSUME NEW time, NEW name, HandlerMounts(time, name) PROVE IntegrityInv'
    BY <2>5 DEF HandlerMounts
  <2>6. ASSUME NEW left, HandlerFails(left) PROVE IntegrityInv'
    BY <2>6 DEF HandlerFails
  <2>7. ASSUME NEW removed, UnmountDir(removed) PROVE IntegrityInv'
    BY <2>7 DEF UnmountDir
  <2>8. CASE RegistrationAges
    <3>1. registered' = [is |-> TRUE, hash |-> registered.hash, old |-> TRUE]
      BY <2>8 DEF RegistrationAges
    <3> QED
      BY <2>8, <3>1 DEF RegistrationAges
  <2>9. ASSUME NEW time, NEW name, RestartAndMount(time, name) PROVE IntegrityInv'
    BY <2>9 DEF RestartAndMount, Unregistered
  <2>10. ASSUME NEW late, LookAtMount(late) PROVE IntegrityInv'
    BY <2>10 DEF LookAtMount
  <2>11. CASE UNCHANGED IntegrityVars
    BY <2>11 DEF IntegrityVars
  <2> QED
    BY <2>1, <2>2, <2>3, <2>4, <2>5, <2>6, <2>7, <2>8, <2>9, <2>10, <2>11 DEF IntegrityNext
<1> QED
  BY <1>1, <1>2, PTL DEF IntegritySpec, IntegrityInv

-----------------------------------------------------------------------------
(* MemoryProtector: between calls that did not overlap, the task that set the   *)
(* region is the one that will record it.                                       *)

MemoryInv ==
  /\ protector \in [Protecting -> {"none", "r", "x"}]
  /\ ~lapsed =>
       /\ \A t, u \in Protecting :
            protector[t] # "none" /\ protector[u] # "none" => t = u
       /\ \A t \in Protecting : protector[t] # "none" => protector[t] = region
       /\ (\A t \in Protecting : protector[t] = "none") => recorded = region

\* For any number of tasks: the record of a region is what the system enforces once
\* all calls returned, unless two overlapped or the region was cleared
\* (security/integrity.rs:1040-1095).
THEOREM RecordsFollowRegions == MemorySpec => []RecordFollowsRegion
<1>1. MemoryInit => MemoryInv
  BY DEF MemoryInit, MemoryInv
<1>2. MemoryInv /\ [MemoryNext]_MemoryVars => MemoryInv'
  <2> SUFFICES ASSUME MemoryInv, [MemoryNext]_MemoryVars PROVE MemoryInv'
    OBVIOUS
  <2>1. ASSUME NEW t \in Protecting, NEW flags \in {"r", "x"}, Protect(t, flags)
        PROVE  MemoryInv'
    <3>1. /\ region' = flags /\ protector'[t] = flags
          /\ \A u \in Protecting \ {t} : protector'[u] = protector[u]
          /\ protector' \in [Protecting -> {"none", "r", "x"}]
      BY <2>1 DEF Protect, MemoryInv
    <3>2. ~lapsed' => \A u \in Protecting : protector[u] = "none"
      BY <2>1 DEF Protect
    <3> QED
      BY <3>1, <3>2 DEF MemoryInv
  <2>2. ASSUME NEW t \in Protecting, RecordProtection(t) PROVE MemoryInv'
    <3>1. /\ recorded' = protector[t] /\ protector'[t] = "none"
          /\ \A u \in Protecting \ {t} : protector'[u] = protector[u]
          /\ protector' \in [Protecting -> {"none", "r", "x"}]
      BY <2>2 DEF RecordProtection, MemoryInv
    <3> QED
      BY <2>2, <3>1 DEF MemoryInv, RecordProtection
  <2>3. ASSUME NEW t \in Protecting, SecureClear(t) PROVE MemoryInv'
    BY <2>3 DEF MemoryInv, SecureClear
  <2>4. CASE UNCHANGED MemoryVars
    BY <2>4 DEF MemoryInv, MemoryVars
  <2> QED
    BY <2>1, <2>2, <2>3, <2>4 DEF MemoryNext
<1>3. MemoryInv => RecordFollowsRegion
  BY DEF MemoryInv, RecordFollowsRegion
<1> QED
  BY <1>1, <1>2, <1>3, PTL DEF MemorySpec

-----------------------------------------------------------------------------
(* HardwareCredentials: of an id without overlapping changes, whoever is about  *)
(* to write a credential has the latest one.                                    *)

Step == {"store", "cache", "get", "answered", "rotating", "rotate", "recache"}

HsmShape ==
  /\ op \in [HsmTasks -> {AtRest} \cup [at: Step, id: HsmIds, value: Nat]]
  /\ hsm \in [HsmIds -> Nat] /\ keyCache \in [HsmIds -> Nat]
  /\ latest \in [HsmIds -> Nat] /\ stored \in Nat

\* What holds of one id as long as it is not crossed.
KeptApart(id) ==
  /\ hsm[id] = latest[id]
  /\ \A t, u \in HsmTasks : Changing(t, id) /\ Changing(u, id) => t = u
  /\ \A t \in HsmTasks : Changing(t, id) /\ op[t].at \in {"cache", "rotate", "recache"} =>
                           op[t].value = hsm[id]
  /\ (\A t \in HsmTasks : Changing(t, id) => op[t].at # "cache") =>
       keyCache[id] \in {None, hsm[id]}

HsmInv == HsmShape /\ \A id \in HsmIds \ crossed : KeptApart(id)

LEMMA IdleAtRest == AtRest.at = "idle"
  BY DEF AtRest

\* A step of one task that is not at another id leaves that id alone.
LEMMA HsmFrame ==
    ASSUME HsmInv, NEW id \in HsmIds, id \notin crossed,
           NEW t \in HsmTasks, ~Changing(t, id), ~Changing(t, id)',
           \A u \in HsmTasks \ {t} : op'[u] = op[u],
           hsm'[id] = hsm[id], latest'[id] = latest[id], keyCache'[id] = keyCache[id]
    PROVE  KeptApart(id)'
<1>1. \A u \in HsmTasks : Changing(u, id)' <=> Changing(u, id)
  BY DEF Changing
<1>2. \A u \in HsmTasks : Changing(u, id)' => op'[u] = op[u]
  OBVIOUS
<1>3. KeptApart(id)
  BY DEF HsmInv
<1> QED
  BY <1>1, <1>2, <1>3 DEF KeptApart

LEMMA HsmStutter ==
    ASSUME HsmInv, UNCHANGED <<op, hsm, keyCache, latest, stored, crossed>>
    PROVE  HsmInv'
<1>1. HsmShape'
  BY DEF HsmInv, HsmShape
<1>2. ASSUME NEW id \in HsmIds \ crossed PROVE KeptApart(id)'
  <2>1. KeptApart(id)
    BY DEF HsmInv
  <2>2. \A t \in HsmTasks : Changing(t, id)' <=> Changing(t, id)
    BY DEF Changing
  <2> QED
    BY <2>1, <2>2 DEF KeptApart
<1> QED
  BY <1>1, <1>2 DEF HsmInv

LEMMA CallKeepsInv ==
    ASSUME HsmInv, NEW t \in HsmTasks, NEW id \in HsmIds,
           NEW what \in {"store", "get", "rotating"}, NEW valid, Call(t, id, what, valid)
    PROVE  HsmInv'
<1>1. CASE what = "store" /\ ~valid
  BY <1>1, HsmStutter DEF Call
<1>2. CASE ~(what = "store" /\ ~valid)
  <2>1. /\ UNCHANGED <<hsm, keyCache, latest>>
        /\ stored' = (IF what = "store" THEN stored + 1 ELSE stored)
        /\ op' = [op EXCEPT ![t] = [at |-> what, id |-> id,
                    value |-> IF what = "store" THEN stored' ELSE None]]
        /\ crossed' = (IF what # "get" /\ \E u \in HsmTasks : Changing(u, id)
                       THEN crossed \cup {id} ELSE crossed)
        /\ op[t] = AtRest
    BY <1>2 DEF Call
  <2>2. HsmShape'
    <3>1. stored' \in Nat
      <4>1. stored \in Nat
        BY DEF HsmInv, HsmShape
      <4>2. stored' = stored + 1 \/ stored' = stored
        BY <2>1
      <4> QED
        BY <4>1, <4>2
    <3>2. [at |-> what, id |-> id, value |-> IF what = "store" THEN stored' ELSE None]
            \in [at: Step, id: HsmIds, value: Nat]
      BY <3>1 DEF Step, None
    <3> QED
      BY <2>1, <3>1, <3>2 DEF HsmInv, HsmShape
  <2>3. /\ op'[t].at = what /\ op'[t].id = id
        /\ \A u \in HsmTasks \ {t} : op'[u] = op[u]
    BY <2>1 DEF HsmInv, HsmShape
  <2>4. \A i \in HsmIds : ~Changing(t, i)
    <3>1. op[t].at = "idle"
      BY <2>1, IdleAtRest
    <3> QED
      BY <3>1 DEF Changing
  <2>5. ASSUME NEW i \in HsmIds \ crossed', i # id \/ what = "get" PROVE KeptApart(i)'
    <3>1. ~Changing(t, i)'
      BY <2>3, <2>5 DEF Changing
    <3> QED
      BY <2>1, <2>3, <2>4, <2>5, <3>1, HsmFrame
  <2>6. ASSUME what # "get", id \notin crossed' PROVE KeptApart(id)'
    <3>1. /\ \A u \in HsmTasks : ~Changing(u, id)
          /\ id \notin crossed
      BY <2>1, <2>6
    <3>2. \A u \in HsmTasks : Changing(u, id)' => u = t
      BY <2>3, <3>1 DEF Changing
    <3>3. KeptApart(id)
      BY <3>1 DEF HsmInv
    <3>4. keyCache[id] \in {None, hsm[id]} /\ hsm[id] = latest[id]
      BY <3>1, <3>3 DEF KeptApart
    <3>5. op'[t].at \in {"store", "rotating"}
      BY <2>3, <2>6
    <3> QED
      BY <2>1, <3>2, <3>4, <3>5 DEF KeptApart
  <2> QED
    BY <2>2, <2>5, <2>6 DEF HsmInv
<1> QED
  BY <1>1, <1>2

\* Every later step of a call: the id it works on keeps what KeptApart says.
LEMMA CallStepKeepsInv ==
    ASSUME HsmInv, NEW t \in HsmTasks,
           \/ StoreKey(t) \/ CacheKey(t) \/ GetKey(t)
           \/ RotateReads(t) \/ RotateWrites(t) \/ RotateCaches(t) \/ CallReturns(t)
    PROVE  HsmInv'
<1>1. op[t] \in [at: Step, id: HsmIds, value: Nat] /\ crossed' = crossed
  <2>1. op[t].at \in Step /\ crossed' = crossed
    BY DEF StoreKey, CacheKey, GetKey, RotateReads, RotateWrites, RotateCaches, CallReturns, Step
  <2>2. op[t] # AtRest
    BY <2>1, IdleAtRest DEF Step
  <2> QED
    BY <2>1, <2>2 DEF HsmInv, HsmShape
<1>0. PICK mine \in HsmIds : op[t].id = mine
  BY <1>1
<1>2. /\ HsmShape'
      /\ \A u \in HsmTasks \ {t} : op'[u] = op[u]
      /\ op'[t] = AtRest \/ op'[t].id = mine
      /\ \A i \in HsmIds \ {mine} :
           hsm'[i] = hsm[i] /\ latest'[i] = latest[i] /\ keyCache'[i] = keyCache[i]
  <2> USE <1>0, <1>1 DEF HsmInv, HsmShape, Step, Return
  <2>1. CASE StoreKey(t)
    BY <2>1 DEF StoreKey
  <2>2. CASE CacheKey(t)
    BY <2>2 DEF CacheKey
  <2>3. CASE GetKey(t)
    BY <2>3 DEF GetKey
  <2>4. CASE RotateReads(t)
    BY <2>4 DEF RotateReads
  <2>5. CASE RotateWrites(t)
    BY <2>5 DEF RotateWrites
  <2>6. CASE RotateCaches(t)
    BY <2>6 DEF RotateCaches
  <2>7. CASE CallReturns(t)
    BY <2>7 DEF CallReturns
  <2> QED
    BY <2>1, <2>2, <2>3, <2>4, <2>5, <2>6, <2>7
<1>3. ASSUME NEW i \in HsmIds \ crossed, i # mine PROVE KeptApart(i)'
  <2>1. ~Changing(t, i) /\ ~Changing(t, i)'
    <3>1. op'[t].at = "idle" \/ op'[t].id = mine
      BY <1>2 DEF AtRest
    <3> QED
      BY <1>0, <1>3, <3>1 DEF Changing
  <2> QED
    BY <1>1, <1>2, <1>3, <2>1, HsmFrame
<1>4. ASSUME mine \notin crossed PROVE KeptApart(mine)'
  <2>1. KeptApart(mine) /\ mine \in HsmIds
    BY <1>4 DEF HsmInv
  <2>2. CASE op[t].at \in {"get", "answered"}
    <3>1. GetKey(t) \/ CallReturns(t)
      BY <2>2 DEF StoreKey, CacheKey, RotateReads, RotateWrites, RotateCaches
    <3>2. op'[t].at \in {"answered", "idle"} /\ UNCHANGED <<hsm, latest, keyCache>>
      <4>1. CASE GetKey(t)
        BY <1>1, <4>1 DEF GetKey, HsmInv, HsmShape
      <4>2. CASE CallReturns(t)
        BY <1>1, <4>2, IdleAtRest DEF CallReturns, Return, HsmInv, HsmShape
      <4> QED
        BY <3>1, <4>1, <4>2
    <3>3. ~Changing(t, mine) /\ ~Changing(t, mine)'
      BY <2>2, <3>2 DEF Changing
    <3> QED
      BY <1>1, <1>2, <1>4, <2>1, <3>2, <3>3, HsmFrame
  <2>3. CASE op[t].at \notin {"get", "answered"}
    <3>1. Changing(t, mine) /\ \A u \in HsmTasks \ {t} : ~Changing(u, mine)
      <4>1. Changing(t, mine)
        BY <1>0, <1>1, <2>3 DEF Changing, Step
      <4> QED
        BY <2>1, <4>1 DEF KeptApart
    <3>2. \A u \in HsmTasks : u # t => ~(Changing(u, mine)')
      <4>1. ASSUME NEW u \in HsmTasks, u # t PROVE ~(Changing(u, mine)')
        BY <1>2, <3>1, <4>1 DEF Changing
      <4> QED
        BY <4>1
    <3>3. /\ hsm[mine] = latest[mine]
          /\ op[t].at \in {"cache", "rotate", "recache"} => op[t].value = hsm[mine]
          /\ op[t].at # "cache" => keyCache[mine] \in {None, hsm[mine]}
      BY <2>1, <3>1 DEF KeptApart
    <3>4. /\ hsm'[mine] = latest'[mine]
          /\ Changing(t, mine)' /\ op'[t].at \in {"cache", "rotate", "recache"} =>
               op'[t].value = hsm'[mine]
          /\ ~(Changing(t, mine)' /\ op'[t].at = "cache") =>
               keyCache'[mine] \in {None, hsm'[mine]}
      <4>1. CASE StoreKey(t)
        BY <1>0, <1>1, <4>1 DEF HsmInv, HsmShape, StoreKey, Changing
      <4>2. CASE CacheKey(t)
        BY <1>0, <1>1, <3>3, <4>2 DEF HsmInv, HsmShape, CacheKey, Changing, Return, AtRest
      <4>3. CASE RotateReads(t)
        BY <1>0, <1>1, <3>3, <4>3 DEF HsmInv, HsmShape, RotateReads, Changing
      <4>4. CASE RotateWrites(t)
        BY <1>0, <1>1, <3>3, <4>4 DEF HsmInv, HsmShape, RotateWrites, Changing
      <4>5. CASE RotateCaches(t)
        BY <1>0, <1>1, <3>3, <4>5 DEF HsmInv, HsmShape, RotateCaches, Changing, Return, AtRest
      <4>6. CASE CallReturns(t)
        BY <1>0, <1>1, <3>3, <4>6 DEF HsmInv, HsmShape, CallReturns, Changing, Return, AtRest
      <4>7. CASE GetKey(t)
        BY <2>3, <4>7 DEF GetKey
      <4> QED
        BY <4>1, <4>2, <4>3, <4>4, <4>5, <4>6, <4>7
    <3> QED
      BY <3>2, <3>4 DEF KeptApart
  <2> QED
    BY <2>2, <2>3
<1> QED
  BY <1>1, <1>2, <1>3, <1>4 DEF HsmInv

LEMMA HsmHolds == HsmSpec => []HsmInv
<1>1. HsmInit => HsmInv
  <2> SUFFICES ASSUME HsmInit PROVE HsmInv
    OBVIOUS
  <2>1. HsmShape
    BY DEF HsmInit, HsmShape, Zero, None
  <2>2. \A t \in HsmTasks, id \in HsmIds : ~Changing(t, id)
    BY DEF HsmInit, Changing, AtRest
  <2>3. \A id \in HsmIds : hsm[id] = latest[id] /\ keyCache[id] = None
    BY DEF HsmInit, Zero
  <2> QED
    BY <2>1, <2>2, <2>3 DEF HsmInv, KeptApart
<1>2. HsmInv /\ [HsmNext]_HsmVars => HsmInv'
  <2> SUFFICES ASSUME HsmInv, [HsmNext]_HsmVars PROVE HsmInv'
    OBVIOUS
  <2>1. ASSUME NEW t \in HsmTasks, NEW id \in HsmIds, NEW what \in {"store", "get", "rotating"},
               NEW valid \in BOOLEAN, Call(t, id, what, valid)
        PROVE  HsmInv'
    BY <2>1, CallKeepsInv
  <2>2. ASSUME NEW t \in HsmTasks,
               \/ StoreKey(t) \/ CacheKey(t) \/ GetKey(t)
               \/ RotateReads(t) \/ RotateWrites(t) \/ RotateCaches(t) \/ CallReturns(t)
        PROVE  HsmInv'
    BY <2>2, CallStepKeepsInv
  <2>3. CASE ProviderRestarts
    <3>1. \A t \in HsmTasks, id \in HsmIds : ~Changing(t, id)'
      BY <2>3 DEF ProviderRestarts, Changing, AtRest
    <3>2. HsmShape'
      BY <2>3 DEF ProviderRestarts, HsmInv, HsmShape, Zero, None
    <3>3. ASSUME NEW id \in HsmIds \ crossed PROVE KeptApart(id)'
      <4>1. hsm[id] = latest[id]
        BY DEF HsmInv, KeptApart
      <4> QED
        BY <2>3, <3>1, <4>1 DEF ProviderRestarts, KeptApart, Zero
    <3> QED
      BY <2>3, <3>2, <3>3 DEF ProviderRestarts, HsmInv
  <2>4. CASE UNCHANGED HsmVars
    BY <2>4, HsmStutter DEF HsmVars
  <2> QED
    BY <2>1, <2>2, <2>3, <2>4 DEF HsmNext
<1> QED
  BY <1>1, <1>2, PTL DEF HsmSpec

\* For any ids, tasks and permits: an id whose stores and rotations never overlapped
\* has the credential last given to the key store, whatever failed or restarted, and
\* what is cached of it is that one (security/hardware_credential_provider.rs:265-300).
THEOREM RotationsKeepLatest == HsmSpec => []RotationKeepsLatest
<1>1. HsmInv => RotationKeepsLatest
  BY DEF HsmInv, KeptApart, RotationKeepsLatest, Changing
<1> QED
  BY <1>1, HsmHolds, PTL

-----------------------------------------------------------------------------
(* SecureSocket: a message noted is in the history, and who has looked before   *)
(* it was noted has overlapped with who noted it.                               *)

SessionShape ==
  /\ verify \in [Verifiers -> {NotVerifying} \cup [at: {"look", "note"}, msg: SecureMessages]]
  /\ accepted \in [SecureMessages -> Nat]
  /\ made \in [SecureMessages -> [by: Contexts \cup {"none"}, old: BOOLEAN]]
  /\ granted \in [SecureSessions -> Nat]
  /\ sessions \in [SecureSessions -> {NoSession} \cup
                    [is: {TRUE}, auth: BOOLEAN, count: Nat, idle: BOOLEAN]]

LEMMA IdleNotVerifying == NotVerifying.at = "idle"
  BY DEF NotVerifying

Busy(t, m) == verify[t].at # "idle" /\ verify[t].msg = m

OnceEach(m) ==
  /\ accepted[m] > 0 => made[m].by = "server" /\ m \in history
  /\ \A t \in Verifiers : Busy(t, m) => made[m].by = "server"
  /\ m \notin overlapped =>
       /\ accepted[m] \in {0, 1}
       /\ \A t, u \in Verifiers : Busy(t, m) /\ Busy(u, m) => t = u
       /\ \A t \in Verifiers : Busy(t, m) /\ verify[t].at = "note" => accepted[m] = 0

RateKept(s) == /\ granted[s] <= SessionRate
               /\ sessions[s].is => granted[s] <= sessions[s].count

SessionInv == /\ SessionShape
              /\ \A m \in SecureMessages : OnceEach(m)
              /\ \A s \in SecureSessions : RateKept(s)

LEMMA SessionStutter ==
    ASSUME SessionInv, UNCHANGED SessionVars
    PROVE  SessionInv'
<1>1. SessionShape'
  BY DEF SessionInv, SessionShape, SessionVars
<1>2. ASSUME NEW m \in SecureMessages PROVE OnceEach(m)'
  BY DEF SessionInv, OnceEach, Busy, SessionVars
<1>3. ASSUME NEW s \in SecureSessions PROVE RateKept(s)'
  BY DEF SessionInv, RateKept, SessionVars
<1> QED
  BY <1>1, <1>2, <1>3 DEF SessionInv

\* Steps of sessions leave the messages alone, and steps of messages the sessions.
LEMMA MessagesApart ==
    ASSUME SessionInv, UNCHANGED <<made, history, verify, accepted, overlapped>>
    PROVE  \A m \in SecureMessages : OnceEach(m)'
<1> SUFFICES ASSUME NEW m \in SecureMessages PROVE OnceEach(m)'
  OBVIOUS
<1>1. OnceEach(m)
  BY DEF SessionInv
<1>2. \A t \in Verifiers : Busy(t, m)' <=> Busy(t, m)
  BY DEF Busy
<1> QED
  BY <1>1, <1>2 DEF OnceEach

LEMMA SessionsApart ==
    ASSUME SessionInv, UNCHANGED <<sessions, granted>>
    PROVE  \A s \in SecureSessions : RateKept(s)'
  BY DEF SessionInv, RateKept

LEMMA NoteKeepsInv ==
    ASSUME SessionInv, NEW t \in Verifiers, NoteMessage(t)
    PROVE  SessionInv'
<1>1. /\ verify[t].at = "note"
      /\ verify' = [verify EXCEPT ![t] = NotVerifying]
      /\ history' = history \cup {verify[t].msg}
      /\ accepted' = [accepted EXCEPT ![verify[t].msg] = @ + 1]
      /\ UNCHANGED <<made, overlapped, sessions, granted>>
  BY DEF NoteMessage
<1>2. PICK m \in SecureMessages : verify[t].msg = m
  <2>1. verify[t] # NotVerifying
    BY <1>1, IdleNotVerifying
  <2> QED
    BY <2>1 DEF SessionInv, SessionShape
<1>3. /\ accepted' \in [SecureMessages -> Nat] /\ accepted'[m] = accepted[m] + 1
      /\ accepted[m] \in Nat
      /\ \A n \in SecureMessages \ {m} : accepted'[n] = accepted[n]
  BY <1>1, <1>2 DEF SessionInv, SessionShape
<1>4. /\ verify'[t].at = "idle" /\ verify[t].at = "note"
      /\ \A u \in Verifiers \ {t} : verify'[u] = verify[u]
  BY <1>1, IdleNotVerifying DEF SessionInv, SessionShape
<1>5. \A n \in SecureMessages, u \in Verifiers :
        /\ u # t => (Busy(u, n)' <=> Busy(u, n))
        /\ ~(Busy(t, n)')
        /\ Busy(t, n) <=> n = m
  BY <1>2, <1>4 DEF Busy
<1>6. SessionShape'
  BY <1>1, <1>3 DEF SessionInv, SessionShape
<1>7. ASSUME NEW n \in SecureMessages PROVE OnceEach(n)'
  <2>1. OnceEach(n)
    BY DEF SessionInv
  <2>2. CASE n # m
    <3>1. /\ accepted'[n] = accepted[n] /\ made' = made /\ overlapped' = overlapped
          /\ history \subseteq history'
      BY <1>1, <1>3, <2>2
    <3>2. \A u \in Verifiers : Busy(u, n)' => Busy(u, n) /\ verify'[u] = verify[u]
      BY <1>4, <1>5
    <3> QED
      BY <2>1, <3>1, <3>2 DEF OnceEach
  <2>3. CASE n = m
    <3>1. made'[m].by = "server" /\ m \in history'
      BY <1>1, <1>2, <1>5, <2>1, <2>3 DEF OnceEach
    <3>2. m \notin overlapped => accepted[m] = 0 /\ \A u \in Verifiers : ~(Busy(u, m)')
      BY <1>1, <1>5, <2>1, <2>3 DEF OnceEach
    <3>3. m \notin overlapped => accepted'[m] = 1
      BY <1>3, <3>2
    <3> QED
      BY <1>1, <2>3, <3>1, <3>2, <3>3 DEF OnceEach
  <2> QED
    BY <2>2, <2>3
<1>8. \A s \in SecureSessions : RateKept(s)'
  BY <1>1, SessionsApart
<1> QED
  BY <1>6, <1>7, <1>8 DEF SessionInv

LEMMA LookKeepsInv ==
    ASSUME SessionInv, NEW t \in Verifiers, LookInHistory(t)
    PROVE  SessionInv'
<1>1. /\ verify[t].at = "look"
      /\ verify' = [verify EXCEPT ![t] = IF verify[t].msg \in history THEN NotVerifying
                                         ELSE [@ EXCEPT !.at = "note"]]
      /\ UNCHANGED <<made, history, accepted, overlapped, sessions, granted>>
  BY DEF LookInHistory
<1>2. verify[t] \in [at: {"look", "note"}, msg: SecureMessages]
  <2>1. verify[t] # NotVerifying
    BY <1>1, IdleNotVerifying
  <2> QED
    BY <2>1 DEF SessionInv, SessionShape
<1>3. /\ \A u \in Verifiers \ {t} : verify'[u] = verify[u]
      /\ \/ verify'[t] = NotVerifying
         \/ /\ verify'[t] = [at |-> "note", msg |-> verify[t].msg]
            /\ verify[t].msg \notin history
  BY <1>1, <1>2 DEF SessionInv, SessionShape
<1>4. verify' \in [Verifiers -> {NotVerifying} \cup [at: {"look", "note"}, msg: SecureMessages]]
  BY <1>1, <1>2 DEF SessionInv, SessionShape
<1>5. ASSUME NEW n \in SecureMessages PROVE OnceEach(n)'
  <2>1. OnceEach(n)
    BY DEF SessionInv
  <2>2. \A u \in Verifiers : Busy(u, n)' => Busy(u, n)
    <3>1. ASSUME NEW u \in Verifiers, u = t, Busy(u, n)' PROVE Busy(u, n)
      BY <1>1, <1>3, <3>1, IdleNotVerifying DEF Busy
    <3>2. ASSUME NEW u \in Verifiers, u # t, Busy(u, n)' PROVE Busy(u, n)
      BY <1>3, <3>2 DEF Busy
    <3> QED
      BY <3>1, <3>2
  <2>3. ASSUME NEW u \in Verifiers, Busy(u, n)', verify'[u].at = "note", n \notin overlapped
        PROVE  accepted[n] = 0
    <3>1. CASE u # t
      BY <1>3, <2>1, <2>2, <2>3, <3>1 DEF OnceEach
    <3>2. CASE u = t
      <4>1. n \notin history
        BY <1>3, <2>3, <3>2, IdleNotVerifying DEF Busy
      <4>2. accepted[n] \in Nat
        BY DEF SessionInv, SessionShape
      <4> QED
        BY <2>1, <4>1, <4>2 DEF OnceEach
    <3> QED
      BY <3>1, <3>2
  <2> QED
    BY <1>1, <2>1, <2>2, <2>3 DEF OnceEach
<1>6. \A s \in SecureSessions : RateKept(s)'
  BY <1>1, SessionsApart
<1> QED
  BY <1>1, <1>4, <1>5, <1>6 DEF SessionInv, SessionShape

LEMMA BeginKeepsInv ==
    ASSUME SessionInv, NEW t \in Verifiers, NEW m \in SecureMessages, BeginVerify(t, m)
    PROVE  SessionInv'
<1>1. CASE made[m].old \/ made[m].by # "server"
  BY <1>1, SessionStutter DEF BeginVerify, SessionVars
<1>2. CASE ~made[m].old /\ made[m].by = "server"
  <2>1. /\ verify[t] = NotVerifying
        /\ verify' = [verify EXCEPT ![t] = [at |-> "look", msg |-> m]]
        /\ overlapped' = (IF \E u \in Verifiers : verify[u].at # "idle" /\ verify[u].msg = m
                          THEN overlapped \cup {m} ELSE overlapped)
        /\ UNCHANGED <<made, history, accepted, sessions, granted>>
    BY <1>2 DEF BeginVerify
  <2>2. /\ verify' \in [Verifiers -> {NotVerifying} \cup [at: {"look", "note"}, msg: SecureMessages]]
        /\ verify'[t] = [at |-> "look", msg |-> m]
        /\ \A u \in Verifiers \ {t} : verify'[u] = verify[u]
    BY <2>1 DEF SessionInv, SessionShape
  <2>3. verify'[t].at = "look" /\ verify'[t].msg = m
    BY <2>2
  <2>4. ASSUME NEW n \in SecureMessages PROVE OnceEach(n)'
    <3>1. OnceEach(n)
      BY DEF SessionInv
    <3>2. /\ \A u \in Verifiers : u # t => (Busy(u, n)' <=> Busy(u, n))
          /\ Busy(t, n)' => n = m
      BY <2>2, <2>3 DEF Busy
    <3>3. overlapped \subseteq overlapped'
      BY <2>1
    <3>4. n = m /\ n \notin overlapped' => \A u \in Verifiers : ~Busy(u, n)
      BY <2>1 DEF Busy
    <3>5. \A u \in Verifiers : verify'[u].at = "note" => u # t /\ verify[u].at = "note"
      BY <2>2, <2>3
    <3>6. \A u \in Verifiers : Busy(u, n)' => made'[n].by = "server"
      BY <1>2, <2>1, <3>1, <3>2 DEF OnceEach
    <3> QED
      BY <2>1, <3>1, <3>2, <3>3, <3>4, <3>5, <3>6 DEF OnceEach
  <2>5. \A s \in SecureSessions : RateKept(s)'
    BY <2>1, SessionsApart
  <2> QED
    BY <2>1, <2>2, <2>4, <2>5 DEF SessionInv, SessionShape
<1> QED
  BY <1>1, <1>2

LEMMA MadeKeepsInv ==
    ASSUME SessionInv, NEW m \in SecureMessages,
           \/ \E c \in Contexts : MakeMessage(m, c)
           \/ MessageAges(m)
    PROVE  SessionInv'
<1>1. /\ UNCHANGED <<history, verify, accepted, overlapped, sessions, granted>>
      /\ made' \in [SecureMessages -> [by: Contexts \cup {"none"}, old: BOOLEAN]]
      /\ \A n \in SecureMessages : made[n].by = "server" => made'[n].by = "server"
  <2> DEFINE Msg == [by: Contexts \cup {"none"}, old: BOOLEAN]
  <2>1. made \in [SecureMessages -> Msg] /\ made[m] \in Msg
    BY DEF SessionInv, SessionShape
  <2>2. UNCHANGED <<history, verify, accepted, overlapped, sessions, granted>>
    BY DEF MakeMessage, MessageAges
  <2>3. ASSUME NEW v \in Msg, made' = [made EXCEPT ![m] = v],
               made[m].by = "server" => v.by = "server"
        PROVE  /\ made' \in [SecureMessages -> Msg]
               /\ \A n \in SecureMessages : made[n].by = "server" => made'[n].by = "server"
    <3> HIDE DEF Msg
    <3> QED
      BY <2>1, <2>3
  <2>4. CASE MessageAges(m)
    <3>1. made' = [made EXCEPT ![m] = [made[m] EXCEPT !.old = TRUE]]
      BY <2>4 DEF MessageAges
    <3>2. /\ [made[m] EXCEPT !.old = TRUE] \in Msg
          /\ [made[m] EXCEPT !.old = TRUE].by = made[m].by
      BY <2>1
    <3> QED
      BY <2>2, <2>3, <3>1, <3>2
  <2>5. CASE \E c \in Contexts : MakeMessage(m, c)
    <3>1. PICK c \in Contexts : MakeMessage(m, c)
      BY <2>5
    <3>2. made[m].by = "none"
      BY <3>1 DEF MakeMessage, Unmade
    <3>3. made' = [made EXCEPT ![m] = [made[m] EXCEPT !.by = c]]
      BY <3>1 DEF MakeMessage
    <3>4. [made[m] EXCEPT !.by = c] \in Msg
      BY <2>1
    <3> QED
      BY <2>2, <2>3, <3>2, <3>3, <3>4
  <2> QED
    BY <2>4, <2>5
<1>2. ASSUME NEW n \in SecureMessages PROVE OnceEach(n)'
  <2>1. OnceEach(n)
    BY DEF SessionInv
  <2>2. \A t \in Verifiers : Busy(t, n)' <=> Busy(t, n)
    BY <1>1 DEF Busy
  <2> QED
    BY <1>1, <2>1, <2>2 DEF OnceEach
<1>3. \A s \in SecureSessions : RateKept(s)'
  BY <1>1, SessionsApart
<1> QED
  BY <1>1, <1>2, <1>3 DEF SessionInv, SessionShape

LEMMA RatesKeepInv ==
    ASSUME SessionInv,
           \/ CleanSessions
           \/ \E s \in SecureSessions :
                \/ CreateSession(s) \/ UpdateActivity(s) \/ SessionIdles(s)
                \/ \E credentials \in BOOLEAN : AuthenticateSession(s, credentials)
    PROVE  SessionInv'
<1> USE DEF SessionInv, SessionShape
<1>1. UNCHANGED <<made, history, verify, accepted, overlapped>>
  BY DEF CleanSessions, CreateSession, UpdateActivity, SessionIdles, AuthenticateSession
<1> DEFINE OpenSession == [is: {TRUE}, auth: BOOLEAN, count: Nat, idle: BOOLEAN]
<1>2. ASSUME NEW s \in SecureSessions, NEW r \in OpenSession, NEW g \in Nat,
             sessions' = [sessions EXCEPT ![s] = r], granted' = [granted EXCEPT ![s] = g],
             g <= SessionRate, g <= r.count
      PROVE  SessionInv'
  <2>1. /\ sessions' \in [SecureSessions -> {NoSession} \cup OpenSession]
        /\ granted' \in [SecureSessions -> Nat]
        /\ sessions'[s] = r /\ granted'[s] = g
        /\ \A v \in SecureSessions \ {s} : sessions'[v] = sessions[v] /\ granted'[v] = granted[v]
    BY <1>2
  <2>2. \A v \in SecureSessions : RateKept(v)'
    BY <1>2, <2>1 DEF RateKept
  <2> QED
    BY <1>1, <2>1, <2>2, MessagesApart
<1>3. ASSUME NEW s \in SecureSessions, sessions[s].is
      PROVE  /\ sessions[s] \in OpenSession /\ granted[s] \in Nat
             /\ granted[s] <= SessionRate /\ granted[s] <= sessions[s].count
             /\ granted = [granted EXCEPT ![s] = granted[s]]
  <2>1. sessions[s] # NoSession
    BY <1>3 DEF NoSession
  <2>2. sessions[s] \in OpenSession
    BY <2>1
  <2>3. RateKept(s)
    OBVIOUS
  <2> QED
    BY <1>3, <2>2, <2>3 DEF RateKept
<1>4. ASSUME NEW s \in SecureSessions, CreateSession(s) PROVE SessionInv'
  <2>1. [is |-> TRUE, auth |-> FALSE, count |-> 0, idle |-> FALSE] \in OpenSession
    OBVIOUS
  <2>2. granted' = [granted EXCEPT ![s] = 0]
    BY <1>4 DEF CreateSession
  <2>3. sessions' = [sessions EXCEPT ![s] =
                       [is |-> TRUE, auth |-> FALSE, count |-> 0, idle |-> FALSE]]
    BY <1>4 DEF CreateSession
  <2>4. 0 \in Nat /\ 0 <= SessionRate
        /\ 0 <= [is |-> TRUE, auth |-> FALSE, count |-> 0, idle |-> FALSE].count
    BY SocketAssumption
  <2> QED
    BY <1>2, <2>1, <2>2, <2>3, <2>4
<1>5. ASSUME NEW s \in SecureSessions, UpdateActivity(s) PROVE SessionInv'
  <2>1. sessions[s].is
    BY <1>5 DEF UpdateActivity
  <2>2. PICK c \in Nat : c = sessions[s].count
    BY <1>3, <2>1
  <2>3. PICK d \in Nat : d = IF c > SessionRate THEN c ELSE c + 1
    BY <2>2, SocketAssumption
  <2>4. PICK g \in Nat : g = IF c >= SessionRate THEN granted[s] ELSE granted[s] + 1
    BY <1>3, <2>1, <2>2, SocketAssumption
  <2>5. granted[s] \in Nat /\ granted[s] <= SessionRate /\ granted[s] <= c
    BY <1>3, <2>1, <2>2
  <2>6. g <= SessionRate /\ g <= d
    BY <2>2, <2>3, <2>4, <2>5, SocketAssumption
  <2>7. PICK r \in OpenSession : r = [sessions[s] EXCEPT !.idle = FALSE, !.count = d]
    BY <1>3, <2>1
  <2>8. sessions' = [sessions EXCEPT ![s] = r] /\ r.count = d
    <3>1. sessions[s] \in OpenSession
      BY <1>3, <2>1
    <3>2. sessions' = [sessions EXCEPT ![s] = [sessions[s] EXCEPT !.idle = FALSE,
                         !.count = IF @ > SessionRate THEN @ ELSE @ + 1]]
      BY <1>5 DEF UpdateActivity
    <3> QED
      BY <2>2, <2>3, <2>7, <3>1, <3>2
  <2>9. granted' = [granted EXCEPT ![s] = g]
    BY <1>5, <2>2, <2>4 DEF UpdateActivity
  <2> QED
    BY <1>2, <2>6, <2>7, <2>8, <2>9
<1>6. ASSUME NEW s \in SecureSessions, SessionIdles(s) PROVE SessionInv'
  <2>1. sessions[s].is /\ sessions' = [sessions EXCEPT ![s] = [sessions[s] EXCEPT !.idle = TRUE]]
        /\ granted' = granted
    BY <1>6 DEF SessionIdles
  <2>2. [sessions[s] EXCEPT !.idle = TRUE] \in OpenSession
        /\ [sessions[s] EXCEPT !.idle = TRUE].count = sessions[s].count
    BY <1>3, <2>1
  <2> QED
    BY <1>2, <1>3, <2>1, <2>2
<1>7. ASSUME NEW s \in SecureSessions, NEW c \in BOOLEAN, AuthenticateSession(s, c)
      PROVE  SessionInv'
  <2>1. sessions[s].is /\ sessions' = [sessions EXCEPT ![s] = [sessions[s] EXCEPT !.auth = c]]
        /\ granted' = granted
    BY <1>7 DEF AuthenticateSession
  <2>2. [sessions[s] EXCEPT !.auth = c] \in OpenSession
        /\ [sessions[s] EXCEPT !.auth = c].count = sessions[s].count
    BY <1>3, <2>1
  <2> QED
    BY <1>2, <1>3, <2>1, <2>2
<1>8. CASE CleanSessions
  <2>1. /\ sessions' \in [SecureSessions -> {NoSession} \cup OpenSession]
        /\ granted' = granted
        /\ \A s \in SecureSessions : sessions'[s] \in {NoSession, sessions[s]}
    BY <1>8 DEF CleanSessions
  <2>2. \A s \in SecureSessions : RateKept(s)'
    BY <2>1 DEF RateKept, NoSession
  <2> QED
    BY <1>1, <2>1, <2>2, MessagesApart
<1> QED
  BY <1>4, <1>5, <1>6, <1>7, <1>8

LEMMA SessionHolds == SessionSpec => []SessionInv
<1>1. SessionInit => SessionInv
  <2> SUFFICES ASSUME SessionInit PROVE SessionInv
    OBVIOUS
  <2>1. SessionShape
    BY DEF SessionInit, SessionShape, Unmade
  <2>2. \A t \in Verifiers, m \in SecureMessages : ~Busy(t, m)
    BY IdleNotVerifying DEF SessionInit, Busy
  <2>3. \A m \in SecureMessages : OnceEach(m)
    BY <2>2 DEF SessionInit, OnceEach
  <2>4. \A s \in SecureSessions : RateKept(s)
    BY SocketAssumption DEF SessionInit, RateKept, NoSession
  <2> QED
    BY <2>1, <2>3, <2>4 DEF SessionInv
<1>2. SessionInv /\ [SessionNext]_SessionVars => SessionInv'
  <2> SUFFICES ASSUME SessionInv, [SessionNext]_SessionVars PROVE SessionInv'
    OBVIOUS
  <2>1. ASSUME NEW m \in SecureMessages,
               (\E c \in Contexts : MakeMessage(m, c)) \/ MessageAges(m)
        PROVE  SessionInv'
    BY <2>1, MadeKeepsInv
  <2>2. ASSUME NEW m \in SecureMessages, NEW t \in Verifiers, BeginVerify(t, m)
        PROVE  SessionInv'
    BY <2>2, BeginKeepsInv
  <2>3. ASSUME NEW t \in Verifiers, LookInHistory(t) PROVE SessionInv'
    BY <2>3, LookKeepsInv
  <2>4. ASSUME NEW t \in Verifiers, NoteMessage(t) PROVE SessionInv'
    BY <2>4, NoteKeepsInv
  <2>5. ASSUME \/ CleanSessions
               \/ \E s \in SecureSessions :
                    \/ CreateSession(s) \/ UpdateActivity(s) \/ SessionIdles(s)
                    \/ \E credentials \in BOOLEAN : AuthenticateSession(s, credentials)
        PROVE  SessionInv'
    BY <2>5, RatesKeepInv
  <2>6. CASE UNCHANGED SessionVars
    BY <2>6, SessionStutter
  <2> QED
    BY <2>1, <2>2, <2>3, <2>4, <2>5, <2>6 DEF SessionNext
<1> QED
  BY <1>1, <1>2, PTL DEF SessionSpec

\* For any messages, tasks and sessions: a context accepts a message twice only if two
\* tasks verified it at once, never one the other context made, and no session is
\* granted more than its rate (security/secure_socket.rs:267-379).
THEOREM MessagesAcceptedOnce == SessionSpec => []AcceptedOnce
<1>1. SessionInv => AcceptedOnce
  <2> SUFFICES ASSUME SessionInv PROVE AcceptedOnce
    OBVIOUS
  <2>1. \A m \in SecureMessages : accepted[m] \in Nat /\ OnceEach(m)
    BY DEF SessionInv, SessionShape
  <2>2. \A s \in SecureSessions : granted[s] <= SessionRate
    BY DEF SessionInv, RateKept
  <2> QED
    BY <2>1, <2>2 DEF AcceptedOnce, OnceEach
<1> QED
  BY <1>1, SessionHolds, PTL

(* SecureSocket, the stream: lengths and bodies alternate until a slip.          *)

Units == [what: {"length", "body"}, of: Nat]

\* The units of s continue, behind the first `taken`, those of n messages.
Continues(s, taken, n) ==
  \A i \in 1..Len(s), k \in 1..n :
    /\ taken + i = 2 * k - 1 => s[i] = LengthOf(k)
    /\ taken + i = 2 * k => s[i] = Body(k)

\* How many of the units sent were taken out of the stream.
Taken == 2 * Len(got) + (IF reading = 0 THEN 0 ELSE 1)
\* How many were put into it.
Written == 2 * Len(sent) - (IF sending = 0 THEN 0 ELSE 1)

Aligned ==
  /\ reading \in {0, Len(got) + 1} /\ sending \in {0, Len(sent)}
  /\ Taken + Len(stream) = Written
  /\ Continues(stream, Taken, Len(sent))
  /\ \A i \in 1..Len(got) : got[i] = i

FrameInv ==
  /\ stream \in Seq(Units) /\ sent \in Seq(BOOLEAN) /\ got \in Seq(Nat)
  /\ reading \in Nat /\ sending \in Nat
  /\ slips = {} => Aligned

LEMMA ContinuesWithLength ==
  ASSUME NEW s \in Seq(Units), NEW taken \in Nat, NEW n \in Nat, Continues(s, taken, n),
         taken + Len(s) = 2 * n
  PROVE  Continues(Append(s, LengthOf(n + 1)), taken, n + 1)
<1> SUFFICES ASSUME NEW i \in 1..(Len(s) + 1), NEW k \in 1..(n + 1)
             PROVE  /\ taken + i = 2 * k - 1 => Append(s, LengthOf(n + 1))[i] = LengthOf(k)
                    /\ taken + i = 2 * k => Append(s, LengthOf(n + 1))[i] = Body(k)
  <2>1. Len(Append(s, LengthOf(n + 1))) = Len(s) + 1
    OBVIOUS
  <2> QED
    BY <2>1 DEF Continues
<1>1. CASE i = Len(s) + 1
  <2>1. Append(s, LengthOf(n + 1))[i] = LengthOf(n + 1)
    BY <1>1
  <2> QED
    BY <1>1, <2>1
<1>2. CASE i # Len(s) + 1
  <2>1. i \in 1..Len(s) /\ Append(s, LengthOf(n + 1))[i] = s[i]
    BY <1>2
  <2>2. taken + i <= 2 * n
    BY <2>1
  <2>3. CASE k = n + 1
    BY <2>2, <2>3
  <2>4. CASE k # n + 1
    <3>1. k \in 1..n
      BY <2>4
    <3> QED
      BY <2>1, <3>1 DEF Continues
  <2> QED
    BY <2>3, <2>4
<1> QED
  BY <1>1, <1>2

LEMMA ContinuesWithBody ==
  ASSUME NEW s \in Seq(Units), NEW taken \in Nat, NEW n \in Nat, Continues(s, taken, n),
         taken + Len(s) + 1 = 2 * n
  PROVE  Continues(Append(s, Body(n)), taken, n)
<1> SUFFICES ASSUME NEW i \in 1..(Len(s) + 1), NEW k \in 1..n
             PROVE  /\ taken + i = 2 * k - 1 => Append(s, Body(n))[i] = LengthOf(k)
                    /\ taken + i = 2 * k => Append(s, Body(n))[i] = Body(k)
  <2>1. Len(Append(s, Body(n))) = Len(s) + 1
    OBVIOUS
  <2> QED
    BY <2>1 DEF Continues
<1>1. CASE i = Len(s) + 1
  <2>1. Append(s, Body(n))[i] = Body(n)
    BY <1>1
  <2> QED
    BY <1>1, <2>1
<1>2. CASE i # Len(s) + 1
  <2>1. i \in 1..Len(s) /\ Append(s, Body(n))[i] = s[i]
    BY <1>2
  <2> QED
    BY <2>1 DEF Continues
<1> QED
  BY <1>1, <1>2

LEMMA ContinuesBehindHead ==
  ASSUME NEW s \in Seq(Units), NEW taken \in Nat, NEW n \in Nat, Continues(s, taken, n),
         s # <<>>
  PROVE  /\ Continues(Tail(s), taken + 1, n)
         /\ \A k \in 1..n : /\ taken + 1 = 2 * k - 1 => Head(s) = LengthOf(k)
                            /\ taken + 1 = 2 * k => Head(s) = Body(k)
<1>1. Len(s) \in Nat /\ Len(s) >= 1 /\ Len(Tail(s)) = Len(s) - 1 /\ Head(s) = s[1]
  OBVIOUS
<1>2. ASSUME NEW i \in 1..Len(Tail(s)), NEW k \in 1..n
      PROVE  /\ (taken + 1) + i = 2 * k - 1 => Tail(s)[i] = LengthOf(k)
             /\ (taken + 1) + i = 2 * k => Tail(s)[i] = Body(k)
  <2>1. i + 1 \in 1..Len(s) /\ Tail(s)[i] = s[i + 1]
    BY <1>1
  <2>2. (taken + 1) + i = taken + (i + 1)
    OBVIOUS
  <2> QED
    BY <2>1, <2>2 DEF Continues
<1> QED
  BY <1>1, <1>2 DEF Continues

LEMMA FrameTypes ==
  FrameInv /\ [FrameNext]_FrameVars =>
    /\ stream' \in Seq(Units) /\ sent' \in Seq(BOOLEAN) /\ got' \in Seq(Nat)
    /\ reading' \in Nat /\ sending' \in Nat
<1> SUFFICES ASSUME FrameInv, [FrameNext]_FrameVars
             PROVE  /\ stream' \in Seq(Units) /\ sent' \in Seq(BOOLEAN) /\ got' \in Seq(Nat)
                    /\ reading' \in Nat /\ sending' \in Nat
  OBVIOUS
<1>a. /\ stream \in Seq(Units) /\ sent \in Seq(BOOLEAN) /\ got \in Seq(Nat)
      /\ reading \in Nat /\ sending \in Nat
  BY DEF FrameInv
<1>b. \A n \in Nat : LengthOf(n) \in Units /\ Body(n) \in Units
  BY DEF LengthOf, Body, Units
<1>c. stream # <<>> => Head(stream) \in Units /\ Tail(stream) \in Seq(Units)
  BY <1>a
<1>d. stream # <<>> => Head(stream).of \in Nat
  BY <1>c DEF Units
<1>e. \A n \in Nat : Append(got, n) \in Seq(Nat)
  BY <1>a
<1>1. ASSUME NEW large \in BOOLEAN, SendLength(large)
      PROVE  /\ stream' \in Seq(Units) /\ sent' \in Seq(BOOLEAN) /\ got' \in Seq(Nat)
             /\ reading' \in Nat /\ sending' \in Nat
  <2>1. sent' \in Seq(BOOLEAN) /\ Len(sent') \in Nat
    BY <1>1, <1>a DEF SendLength
  <2> QED
    BY <1>1, <1>a, <1>b, <2>1 DEF SendLength
<1>2. CASE SendBody \/ SendAbandoned
  <2>1. stream' \in {stream, Append(stream, Body(sending))} /\ sending' = 0
    BY <1>2 DEF SendBody, SendAbandoned
  <2>2. sent' = sent /\ got' = got /\ reading' = reading
    BY <1>2 DEF SendBody, SendAbandoned
  <2>3. Append(stream, Body(sending)) \in Seq(Units)
    BY <1>a, <1>b
  <2> QED
    BY <1>a, <2>1, <2>2, <2>3
<1>3. CASE ReceiveLength
  <2>1. stream' \in {stream, Tail(stream)} /\ stream # <<>>
    BY <1>3 DEF ReceiveLength
  <2>2. (got' = got \/ got' = Append(got, 0)) /\ reading' \in {reading, Head(stream).of}
    BY <1>3 DEF ReceiveLength, Garbled
  <2>3. sent' = sent /\ sending' = sending
    BY <1>3 DEF ReceiveLength
  <2>4. stream' \in Seq(Units)
    BY <1>a, <1>c, <2>1
  <2>5. got' \in Seq(Nat) /\ reading' \in Nat
    BY <1>e, <1>a, <1>d, <2>1, <2>2
  <2> QED
    BY <1>a, <2>3, <2>4, <2>5
<1>4. CASE ReceiveBody \/ ReceiveAbandoned
  <2>1. stream' = stream \/ (stream' = Tail(stream) /\ stream # <<>>)
    BY <1>4 DEF ReceiveBody, ReceiveAbandoned
  <2>2. (\E n \in Nat : got' = Append(got, n)) \/ got' = got
    BY <1>4, <1>a DEF ReceiveBody, ReceiveAbandoned, Garbled
  <2>3. sent' = sent /\ sending' = sending /\ reading' = 0
    BY <1>4 DEF ReceiveBody, ReceiveAbandoned
  <2>4. stream' \in Seq(Units)
    BY <1>a, <1>c, <2>1
  <2>5. got' \in Seq(Nat) /\ reading' \in Nat
    BY <1>e, <1>a, <2>2, <2>3
  <2> QED
    BY <1>a, <2>3, <2>4, <2>5
<1>5. CASE UNCHANGED FrameVars
  BY <1>5, <1>a DEF FrameVars
<1> QED
  BY <1>1, <1>2, <1>3, <1>4, <1>5 DEF FrameNext

LEMMA FrameStep == FrameInv /\ [FrameNext]_FrameVars => FrameInv'
<1> SUFFICES ASSUME FrameInv, [FrameNext]_FrameVars, slips' = {} PROVE Aligned'
  BY FrameTypes DEF FrameInv
<1>0. slips = {} /\ Aligned
  BY DEF FrameInv, FrameNext, FrameVars, SendLength, SendBody, SendAbandoned,
         ReceiveLength, ReceiveBody, ReceiveAbandoned
<1>a. stream \in Seq(Units) /\ Len(stream) \in Nat /\ Len(sent) \in Nat /\ Len(got) \in Nat
  BY DEF FrameInv
<1>b. /\ reading = 0 => Taken = 2 * Len(got)
      /\ reading # 0 => Taken = 2 * Len(got) + 1
      /\ sending = 0 => Written = 2 * Len(sent)
      /\ sending # 0 => Written = 2 * Len(sent) - 1
      /\ Taken \in Nat
  BY <1>a DEF Taken, Written
<1>c. Taken + Len(stream) = Written /\ Continues(stream, Taken, Len(sent))
  BY <1>0 DEF Aligned
<1>1. ASSUME NEW large \in BOOLEAN, SendLength(large) PROVE Aligned'
  <2>1. /\ sending = 0 /\ Len(sent') = Len(sent) + 1 /\ sending' = Len(sent')
        /\ reading' = reading /\ got' = got
        /\ stream' = Append(stream, LengthOf(Len(sent')))
    BY <1>1, <1>a DEF SendLength, FrameInv
  <2>2. Taken' = Taken /\ Written' = 2 * Len(sent) + 1
    BY <1>a, <2>1 DEF Taken, Written
  <2>3. Len(stream') = Len(stream) + 1
    BY <1>a, <2>1
  <2>4. Continues(stream', Taken', Len(sent'))
    BY <1>a, <1>b, <1>c, <2>1, <2>2, ContinuesWithLength
  <2>5. Taken' + Len(stream') = Written'
    <3>1. Taken + Len(stream) = 2 * Len(sent) /\ Taken \in Nat
      BY <1>b, <1>c, <2>1
    <3> QED
      BY <1>a, <2>2, <2>3, <3>1
  <2> QED
    BY <1>0, <2>1, <2>4, <2>5 DEF Aligned
<1>2. CASE SendBody
  <2>1. /\ sent' = sent /\ sending' = 0 /\ sending = Len(sent) /\ sending # 0
        /\ reading' = reading /\ got' = got
        /\ stream' = Append(stream, Body(Len(sent)))
    BY <1>0, <1>2 DEF SendBody, Aligned
  <2>2. Taken' = Taken /\ Written' = 2 * Len(sent)
    BY <1>a, <2>1 DEF Taken, Written
  <2>3. Len(stream') = Len(stream) + 1
    BY <1>a, <2>1
  <2>4. Continues(stream', Taken', Len(sent'))
    BY <1>a, <1>b, <1>c, <2>1, <2>2, ContinuesWithBody
  <2>5. Taken' + Len(stream') = Written'
    BY <1>a, <1>b, <1>c, <2>1, <2>2, <2>3
  <2> QED
    BY <1>0, <2>1, <2>4, <2>5 DEF Aligned
<1>3. ASSUME stream # <<>>, stream' = Tail(stream), Taken' = Taken + 1,
             sent' = sent, sending' = sending
      PROVE  Taken' + Len(stream') = Written' /\ Continues(stream', Taken', Len(sent'))
  <2>1. Len(stream') = Len(stream) - 1 /\ Written' = Written
    BY <1>3, <1>a DEF Written
  <2>2. Continues(stream', Taken', Len(sent'))
    BY <1>3, <1>a, <1>b, <1>c, ContinuesBehindHead
  <2> QED
    BY <1>3, <1>a, <1>b, <1>c, <2>1, <2>2
<1>4. CASE ReceiveLength
  <2>1. reading = 0 /\ stream # <<>> /\ sent' = sent /\ sending' = sending
    BY <1>4 DEF ReceiveLength
  <2>2. Len(stream) >= 1
    BY <1>a, <2>1
  <2>3. Len(got) + 1 \in 1..Len(sent) /\ Taken + 1 = 2 * (Len(got) + 1) - 1
    BY <1>a, <1>b, <1>c, <2>1, <2>2
  <2>4. Head(stream) = LengthOf(Len(got) + 1)
    BY <1>a, <1>b, <1>c, <2>1, <2>3, ContinuesBehindHead
  <2>5. Head(stream).what = "length" /\ Head(stream).of = Len(got) + 1
    BY <2>4 DEF LengthOf
  <2>6. stream' = Tail(stream) /\ reading' = Len(got) + 1 /\ got' = got
    BY <1>4, <2>5 DEF ReceiveLength
  <2>7. Taken' = Taken + 1
    BY <1>a, <2>1, <2>6 DEF Taken
  <2> QED
    BY <1>0, <1>3, <2>1, <2>6, <2>7 DEF Aligned
<1>5. CASE ReceiveBody
  <2>1. reading = Len(got) + 1 /\ stream # <<>> /\ sent' = sent /\ sending' = sending
    BY <1>0, <1>5 DEF ReceiveBody, Aligned
  <2>2. Len(stream) >= 1 /\ reading # 0
    BY <1>a, <2>1
  <2>3. Len(got) + 1 \in 1..Len(sent) /\ Taken + 1 = 2 * (Len(got) + 1)
    BY <1>a, <1>b, <1>c, <2>1, <2>2
  <2>4. Head(stream) = Body(reading)
    BY <1>a, <1>b, <1>c, <2>1, <2>3, ContinuesBehindHead
  <2>5. stream' = Tail(stream) /\ reading' = 0 /\ got' = Append(got, Len(got) + 1)
    BY <1>5, <2>1, <2>4 DEF ReceiveBody
  <2>6. Len(got') = Len(got) + 1 /\ \A i \in 1..Len(got') : got'[i] = i
    <3>1. got \in Seq(Nat) /\ \A i \in 1..Len(got) : got[i] = i
      BY <1>0 DEF FrameInv, Aligned
    <3> QED
      BY <2>5, <3>1
  <2>7. Taken' = Taken + 1
    BY <1>a, <1>b, <2>2, <2>5, <2>6 DEF Taken
  <2> QED
    BY <1>0, <1>3, <2>1, <2>5, <2>6, <2>7 DEF Aligned
<1>6. CASE SendAbandoned \/ ReceiveAbandoned
  BY <1>6 DEF SendAbandoned, ReceiveAbandoned
<1>7. CASE UNCHANGED FrameVars
  BY <1>0, <1>7 DEF FrameVars, Aligned, Taken, Written, Continues
<1> QED
  BY <1>1, <1>2, <1>4, <1>5, <1>6, <1>7 DEF FrameNext

LEMMA FrameHolds == FrameSpec => []FrameInv
<1>1. FrameInit => FrameInv
  BY DEF FrameInit, FrameInv, Aligned, Taken, Written, Continues
<1> QED
  BY <1>1, FrameStep, PTL DEF FrameSpec

\* For any messages: until a caller gives up or a length is refused, what arrives is
\* what was sent, in order, and the rest is on its way
\* (security/secure_socket.rs:591-640, 746-796).
THEOREM FramesStayApart == FrameSpec => []FramesStandApart
<1>1. FrameInv => FramesStandApart
  <2> SUFFICES ASSUME FrameInv, slips = {}
               PROVE  /\ got = [i \in 1..Len(got) |-> i]
                      /\ {n \in 1..Len(sent) : Body(n) \in ToSet(stream)}
                           = ((Len(got) + 1)..Len(sent)) \ {sending}
    BY DEF FramesStandApart
  <2>0. Aligned /\ Continues(stream, Taken, Len(sent))
    BY DEF FrameInv, Aligned
  <2>a. /\ Len(stream) \in Nat /\ Len(sent) \in Nat /\ Len(got) \in Nat /\ Taken \in Nat
        /\ Taken \in {2 * Len(got), 2 * Len(got) + 1}
        /\ Taken + Len(stream) = 2 * Len(sent) - (IF sending = 0 THEN 0 ELSE 1)
        /\ sending \in {0, Len(sent)}
    <3>1. Len(stream) \in Nat /\ Len(sent) \in Nat /\ Len(got) \in Nat
      BY DEF FrameInv
    <3>2. Taken \in {2 * Len(got), 2 * Len(got) + 1} /\ Taken \in Nat
      BY <3>1 DEF Taken
    <3>3. Taken + Len(stream) = Written /\ sending \in {0, Len(sent)}
      BY <2>0 DEF Aligned
    <3> QED
      BY <3>1, <3>2, <3>3 DEF Written
  <2>b. ToSet(stream) = {stream[i] : i \in 1..Len(stream)}
    BY DEF ToSet, FrameInv
  <2>1. got = [i \in 1..Len(got) |-> i]
    <3>1. got \in Seq(Nat) /\ \A i \in 1..Len(got) : got[i] = i
      BY <2>0 DEF FrameInv, Aligned
    <3> QED
      BY <3>1
  <2>2. ASSUME NEW n \in 1..Len(sent), Body(n) \in ToSet(stream)
        PROVE  n \in ((Len(got) + 1)..Len(sent)) \ {sending}
    <3>1. PICK i \in 1..Len(stream) : stream[i] = Body(n)
      BY <2>2, <2>b
    <3>2. PICK k \in 1..Len(sent) : Taken + i = 2 * k - 1 \/ Taken + i = 2 * k
      <4>1. Taken + i \in 1..(2 * Len(sent))
        BY <2>a
      <4>2. \A p \in Nat : p = 2 * ((p + 1) \div 2) - 1 \/ p = 2 * ((p + 1) \div 2)
        OBVIOUS
      <4> DEFINE k == (Taken + i + 1) \div 2
      <4>3. k \in 1..Len(sent)
        BY <2>a, <4>1
      <4> QED
        BY <2>a, <4>2, <4>3
    <3>3. Taken + i = 2 * k /\ k = n
      <4>1. LengthOf(k) # Body(n) /\ (Body(k) = Body(n) => k = n)
        BY DEF LengthOf, Body
      <4> QED
        BY <2>0, <3>1, <3>2, <4>1 DEF Continues
    <3> QED
      BY <2>a, <3>3
  <2>3. ASSUME NEW n \in ((Len(got) + 1)..Len(sent)) \ {sending}
        PROVE  n \in 1..Len(sent) /\ Body(n) \in ToSet(stream)
    <3>1. n \in 1..Len(sent) /\ 2 * n - Taken \in 1..Len(stream)
      BY <2>a
    <3>2. Taken + (2 * n - Taken) = 2 * n
      BY <2>a, <3>1
    <3>3. stream[2 * n - Taken] = Body(n)
      BY <2>0, <3>1, <3>2 DEF Continues
    <3> QED
      BY <2>b, <3>1, <3>3
  <2> QED
    BY <2>1, <2>2, <2>3
<1> QED
  BY <1>1, FrameHolds, PTL

\* Both, for a context and a stream that move independently
\* (security/secure_socket.rs:267-379, 591-640).
THEOREM SocketsStand == SessionSpec /\ FrameSpec => []SocketStands
<1>1. AcceptedOnce /\ FramesStandApart => SocketStands
  BY DEF SocketStands
<1> QED
  BY <1>1, MessagesAcceptedOnce, FramesStayApart, PTL

(* SecureUpdates: what reached the history, and what the calls on their way     *)
(* there find under their id.                                                   *)

AtInstallation == {"backup", "install", "complete", "move"}
CallRecords == [at: Phases, on: Packages \cup {NoPackage}, valid: BOOLEAN, left: Int]
Moved == [package: Packages, creation: Nat, path: BOOLEAN, renewed: BOOLEAN]

UpdatesShape ==
  /\ Listed \subseteq Packages /\ \A p \in Listed : active[p] \in Package
  /\ updated \subseteq Moved /\ calls \in [UpdateTasks -> CallRecords]
  /\ creations \in [Packages -> Nat]

\* A package being installed was downloaded, or is a later one of the same id.
InstallsDownloaded ==
  \A t \in UpdateTasks : calls[t].at \in AtInstallation /\ calls[t].on \in Listed =>
    active[calls[t].on].path \/ active[calls[t].on].renewed
DownloadsListed ==
  \A t \in UpdateTasks : calls[t].at = "download" => calls[t].on \in Listed
CreationsCounted ==
  /\ \A p \in Listed : creations[p] >= 1
  /\ \A m \in updated : m.creation <= creations[m.package]

UpdatesInv == /\ UpdatesShape /\ InstallsDownloaded /\ DownloadsListed
              /\ CreationsCounted /\ MovedOnce

LEMMA UpdatesInitInv == UpdatesInit => UpdatesInv
<1> SUFFICES ASSUME UpdatesInit PROVE UpdatesInv
  OBVIOUS
<1>1. Listed = {} /\ updated = {} /\ creations \in [Packages -> Nat]
  BY DEF UpdatesInit, Listed
<1>2. NoCall \in CallRecords /\ NoCall.at = "idle" /\ calls = [t \in UpdateTasks |-> NoCall]
  BY DEF UpdatesInit, NoCall, CallRecords, Phases
<1> QED
  BY <1>1, <1>2
  DEF UpdatesInv, UpdatesShape, InstallsDownloaded, DownloadsListed, CreationsCounted,
      MovedOnce, AtInstallation

\* A step that creates nothing, moves nothing and keeps what was downloaded.
LEMMA UpdatesKeep ==
    ASSUME UpdatesInv, Listed' = Listed,
           \A p \in Listed : /\ active'[p] \in Package
                             /\ active'[p].renewed = active[p].renewed
                             /\ active[p].path => active'[p].path,
           updated' = updated, creations' = creations,
           calls' \in [UpdateTasks -> CallRecords],
           \A t \in UpdateTasks :
             /\ calls'[t].at \in AtInstallation =>
                  \/ calls'[t].on = calls[t].on /\ calls[t].at \in AtInstallation
                  \/ calls'[t].on \in Listed /\ active[calls'[t].on].path
             /\ calls'[t].at = "download" => calls'[t].on \in Listed
    PROVE  UpdatesInv'
<1> USE DEF UpdatesInv
<1>1. UpdatesShape'
  BY DEF UpdatesShape
<1>2. InstallsDownloaded'
  <2> SUFFICES ASSUME NEW t \in UpdateTasks, calls'[t].at \in AtInstallation,
                      calls'[t].on \in Listed
               PROVE  active'[calls'[t].on].path \/ active'[calls'[t].on].renewed
    BY DEF InstallsDownloaded
  <2>1. active[calls'[t].on].path \/ active[calls'[t].on].renewed
    BY DEF InstallsDownloaded
  <2>2. /\ active'[calls'[t].on].renewed = active[calls'[t].on].renewed
        /\ active[calls'[t].on].path => active'[calls'[t].on].path
    OBVIOUS
  <2> QED
    BY <2>1, <2>2, Zenon
<1>3. DownloadsListed'
  BY DEF DownloadsListed
<1>4. CreationsCounted' /\ MovedOnce'
  BY DEF CreationsCounted, MovedOnce
<1> QED
  BY <1>1, <1>2, <1>3, <1>4

\* The id in a call under way.
LEMMA CallsMove ==
    ASSUME UpdatesInv, NEW t \in UpdateTasks, NEW phase \in Phases
    PROVE  /\ Returns(t) => /\ calls' \in [UpdateTasks -> CallRecords] /\ calls'[t].at = "idle"
                            /\ \A u \in UpdateTasks \ {t} : calls'[u] = calls[u]
           /\ GoesTo(t, phase) => /\ calls' \in [UpdateTasks -> CallRecords]
                                  /\ calls'[t].at = phase /\ calls'[t].on = calls[t].on
                                  /\ \A u \in UpdateTasks \ {t} : calls'[u] = calls[u]
           /\ \A p \in Packages : Begins(t, p, phase) =>
                /\ calls' \in [UpdateTasks -> CallRecords]
                /\ calls'[t].at = phase /\ calls'[t].on = p
                /\ \A u \in UpdateTasks \ {t} : calls'[u] = calls[u]
<1>1. calls \in [UpdateTasks -> CallRecords] /\ NoCall \in CallRecords /\ NoCall.at = "idle"
  BY DEF UpdatesInv, UpdatesShape, NoCall, CallRecords, Phases
<1>2. Returns(t) => /\ calls' \in [UpdateTasks -> CallRecords] /\ calls'[t].at = "idle"
                    /\ \A u \in UpdateTasks \ {t} : calls'[u] = calls[u]
  BY <1>1 DEF Returns
<1>3. GoesTo(t, phase) => /\ calls' \in [UpdateTasks -> CallRecords]
                          /\ calls'[t].at = phase /\ calls'[t].on = calls[t].on
                          /\ \A u \in UpdateTasks \ {t} : calls'[u] = calls[u]
  BY <1>1 DEF GoesTo, CallRecords
<1>4. ASSUME NEW p \in Packages, Begins(t, p, phase)
      PROVE  /\ calls' \in [UpdateTasks -> CallRecords]
             /\ calls'[t].at = phase /\ calls'[t].on = p
             /\ \A u \in UpdateTasks \ {t} : calls'[u] = calls[u]
  <2> DEFINE begun == [NoCall EXCEPT !.at = phase, !.on = p]
  <2>1. begun \in CallRecords /\ begun.at = phase /\ begun.on = p
    BY <1>1 DEF CallRecords
  <2>2. calls' = [calls EXCEPT ![t] = begun]
    BY <1>4 DEF Begins
  <2> QED
    BY <1>1, <2>1, <2>2
<1> QED
  BY <1>2, <1>3, <1>4

\* update_stage_status changes a stage and nothing else.
LEMMA StageKeeps ==
    ASSUME UpdatesInv, NEW p, NEW stage \in {"download", "verify", "install"},
           NEW status \in Stage, SetStage(p, stage, status)
    PROVE  /\ Listed' = Listed
           /\ \A q \in Listed : /\ active'[q] \in Package
                                /\ active'[q].renewed = active[q].renewed
                                /\ active'[q].path = active[q].path
<1>1. \A q \in Listed : active[q] \in Package
  BY DEF UpdatesInv, UpdatesShape
<1>2. CASE p \in Listed
  <2> DEFINE next == [active[p] EXCEPT ![stage] = status]
  <2>1. next \in Package /\ next.renewed = active[p].renewed /\ next.path = active[p].path
    <3>1. CASE stage = "download"
      BY <1>1, <1>2, <3>1 DEF Package
    <3>2. CASE stage = "verify"
      BY <1>1, <1>2, <3>2 DEF Package
    <3>3. CASE stage = "install"
      BY <1>1, <1>2, <3>3 DEF Package
    <3> QED
      BY <3>1, <3>2, <3>3
  <2>2. active' = [q \in Listed |-> IF q = p THEN next ELSE active[q]]
    <3>1. active' = With(p, next)
      BY <1>2 DEF SetStage
    <3>2. Listed \cup {p} = Listed
      BY <1>2
    <3> QED
      BY <3>1, <3>2 DEF With
  <2> HIDE DEF next
  <2> QED
    BY <1>1, <1>2, <2>1, <2>2 DEF Listed
<1>3. CASE p \notin Listed
  BY <1>1, <1>3 DEF SetStage, Listed
<1> QED
  BY <1>2, <1>3

LEMMA DownloadsKeep ==
    ASSUME UpdatesInv, NEW t \in UpdateTasks
    PROVE  /\ \A p \in Packages : StartDownload(t, p) => UpdatesInv'
           /\ Downloaded(t) => UpdatesInv'
           /\ DownloadFails(t) => UpdatesInv'
<1>0. /\ \A p \in Listed : active[p] \in Package
      /\ Listed \subseteq Packages /\ {"download", "idle"} \subseteq Phases
  BY DEF UpdatesInv, UpdatesShape, Phases
<1>1. ASSUME NEW p \in Packages, StartDownload(t, p) PROVE UpdatesInv'
  <2> DEFINE rec == [active[p] EXCEPT !.status = "Downloading",
                                      !.download = "Downloading"]
  <2>1. p \in Listed /\ active' = With(p, rec) /\ Begins(t, p, "download")
        /\ updated' = updated /\ creations' = creations
    BY <1>1 DEF StartDownload
  <2>2. rec \in Package /\ rec.renewed = active[p].renewed /\ rec.path = active[p].path
    BY <1>0, <2>1 DEF Package, Stage
  <2> HIDE DEF rec
  <2>3. /\ Listed' = Listed
        /\ \A q \in Listed : active'[q] = IF q = p THEN rec ELSE active[q]
    BY <2>1 DEF With, Listed
  <2>4. /\ calls' \in [UpdateTasks -> CallRecords] /\ calls'[t].at = "download"
        /\ calls'[t].on = p /\ \A u \in UpdateTasks \ {t} : calls'[u] = calls[u]
    BY <1>0, <2>1, CallsMove
  <2>5. \A u \in UpdateTasks :
          /\ calls'[u].at \in AtInstallation =>
               calls'[u].on = calls[u].on /\ calls[u].at \in AtInstallation
          /\ calls'[u].at = "download" => calls'[u].on \in Listed
    BY <2>1, <2>4 DEF AtInstallation, UpdatesInv, DownloadsListed
  <2> QED
    BY <1>0, <2>1, <2>2, <2>3, <2>4, <2>5, UpdatesKeep
<1>2. ASSUME Downloaded(t) PROVE UpdatesInv'
  <2> DEFINE p == calls[t].on
             rec == [active[p] EXCEPT !.download = "Completed", !.path = TRUE]
  <2>1. /\ active' = With(p, rec) /\ Returns(t) /\ p \in Listed
        /\ updated' = updated /\ creations' = creations
    BY <1>2 DEF Downloaded, UpdatesInv, DownloadsListed
  <2>2. rec \in Package /\ rec.renewed = active[p].renewed /\ rec.path
    <3>1. active[p] \in Package /\ "Completed" \in Stage
      BY <1>0, <2>1 DEF Stage
    <3> QED
      BY <3>1 DEF Package
  <2> HIDE DEF rec
  <2>3. /\ Listed' = Listed
        /\ \A q \in Listed : active'[q] = IF q = p THEN rec ELSE active[q]
    BY <2>1 DEF With, Listed
  <2>4. /\ calls' \in [UpdateTasks -> CallRecords] /\ calls'[t].at = "idle"
        /\ \A u \in UpdateTasks \ {t} : calls'[u] = calls[u]
    BY <1>0, <2>1, CallsMove
  <2>5. \A u \in UpdateTasks :
          /\ calls'[u].at \in AtInstallation =>
               calls'[u].on = calls[u].on /\ calls[u].at \in AtInstallation
          /\ calls'[u].at = "download" => calls'[u].on \in Listed
    BY <2>4 DEF AtInstallation, UpdatesInv, DownloadsListed
  <2>6. \A q \in Listed : /\ active'[q] \in Package
                          /\ active'[q].renewed = active[q].renewed
                          /\ active[q].path => active'[q].path
    <3> SUFFICES ASSUME NEW q \in Listed
                 PROVE  /\ active'[q] \in Package
                        /\ active'[q].renewed = active[q].renewed
                        /\ active[q].path => active'[q].path
      OBVIOUS
    <3>1. CASE q = p
      BY <2>2, <2>3, <3>1, Zenon
    <3>2. CASE q # p
      BY <1>0, <2>3, <3>2, Zenon
    <3> QED
      BY <3>1, <3>2
  <2> QED
    BY <2>1, <2>3, <2>4, <2>5, <2>6, UpdatesKeep
<1>3. ASSUME DownloadFails(t) PROVE UpdatesInv'
  <2>1. Returns(t) /\ active' = active /\ updated' = updated /\ creations' = creations
    BY <1>3 DEF DownloadFails
  <2>2. /\ calls' \in [UpdateTasks -> CallRecords] /\ calls'[t].at = "idle"
        /\ \A u \in UpdateTasks \ {t} : calls'[u] = calls[u]
    BY <1>0, <2>1, CallsMove
  <2>3. \A u \in UpdateTasks :
          /\ calls'[u].at \in AtInstallation =>
               calls'[u].on = calls[u].on /\ calls[u].at \in AtInstallation
          /\ calls'[u].at = "download" => calls'[u].on \in Listed
    BY <2>2 DEF AtInstallation, UpdatesInv, DownloadsListed
  <2>4. Listed' = Listed
    BY <2>1 DEF Listed
  <2> QED
    BY <1>0, <2>1, <2>2, <2>3, <2>4, UpdatesKeep
<1> QED
  BY <1>1, <1>2, <1>3

\* A call that looks at nothing but its own id: it ends, or goes on to a phase that
\* is no download and no later than its own on the way to the history.
LEMMA CallKeeps ==
    ASSUME UpdatesInv, NEW t \in UpdateTasks,
           Listed' = Listed,
           \A p \in Listed : /\ active'[p] \in Package
                             /\ active'[p].renewed = active[p].renewed
                             /\ active'[p].path = active[p].path,
           updated' = updated, creations' = creations,
           calls' \in [UpdateTasks -> CallRecords], calls'[t].at # "download",
           calls'[t].at \in AtInstallation =>
             \/ calls'[t].on = calls[t].on /\ calls[t].at \in AtInstallation
             \/ calls'[t].on \in Listed /\ active[calls'[t].on].path,
           \A u \in UpdateTasks \ {t} : calls'[u] = calls[u]
    PROVE  UpdatesInv'
<1>1. \A u \in UpdateTasks :
        /\ calls'[u].at \in AtInstallation =>
             \/ calls'[u].on = calls[u].on /\ calls[u].at \in AtInstallation
             \/ calls'[u].on \in Listed /\ active[calls'[u].on].path
        /\ calls'[u].at = "download" => calls'[u].on \in Listed
  <2> SUFFICES ASSUME NEW u \in UpdateTasks
      PROVE /\ calls'[u].at \in AtInstallation =>
                 \/ calls'[u].on = calls[u].on /\ calls[u].at \in AtInstallation
                 \/ calls'[u].on \in Listed /\ active[calls'[u].on].path
            /\ calls'[u].at = "download" => calls'[u].on \in Listed
    OBVIOUS
  <2>1. CASE u = t
    BY <2>1, Zenon
  <2>2. CASE u # t
    BY <2>2 DEF UpdatesInv, DownloadsListed
  <2> QED
    BY <2>1, <2>2
<1>2. \A p \in Listed : /\ active'[p] \in Package
                        /\ active'[p].renewed = active[p].renewed
                        /\ active[p].path => active'[p].path
  OBVIOUS
<1> QED
  BY <1>1, <1>2, UpdatesKeep

\* What is listed and recorded when a step changes only calls or the files.
LEMMA SameListing ==
    ASSUME UpdatesInv, active' = active
    PROVE  /\ Listed' = Listed
           /\ \A p \in Listed : /\ active'[p] \in Package
                                /\ active'[p].renewed = active[p].renewed
                                /\ active'[p].path = active[p].path
  BY DEF UpdatesInv, UpdatesShape, Listed

LEMMA VerificationKeeps ==
    ASSUME UpdatesInv, NEW t \in UpdateTasks
    PROVE  /\ \A p \in Packages : StartVerify(t, p) => UpdatesInv'
           /\ MarkVerifying(t) => UpdatesInv'
           /\ \A passed \in BOOLEAN : Check(t, passed) => UpdatesInv'
           /\ ConcludeVerify(t) => UpdatesInv'
<1>0. /\ {"mark", "check", "conclude", "idle"} \subseteq Phases
      /\ {"Verifying", "Completed", "Failed"} \subseteq Stage
      /\ calls \in [UpdateTasks -> CallRecords]
  BY DEF UpdatesInv, UpdatesShape, Phases, Stage
<1>1. ASSUME NEW p \in Packages, StartVerify(t, p) PROVE UpdatesInv'
  <2>1. /\ Begins(t, p, "mark") /\ active' = active
        /\ updated' = updated /\ creations' = creations
    BY <1>1 DEF StartVerify
  <2>2. /\ calls' \in [UpdateTasks -> CallRecords] /\ calls'[t].at = "mark"
        /\ \A u \in UpdateTasks \ {t} : calls'[u] = calls[u]
    BY <1>0, <2>1, CallsMove
  <2>3. calls'[t].at # "download" /\ calls'[t].at \notin AtInstallation
    BY <2>2 DEF AtInstallation
  <2> QED
    BY <2>1, <2>2, <2>3, SameListing, CallKeeps
<1>2. ASSUME MarkVerifying(t) PROVE UpdatesInv'
  <2> DEFINE next == [calls[t] EXCEPT !.at = "check", !.left = 4]
  <2>1. /\ SetStage(calls[t].on, "verify", "Verifying")
        /\ calls' = [calls EXCEPT ![t] = next]
        /\ updated' = updated /\ creations' = creations
    BY <1>2 DEF MarkVerifying
  <2>2. /\ calls' \in [UpdateTasks -> CallRecords] /\ calls'[t].at = "check"
        /\ \A u \in UpdateTasks \ {t} : calls'[u] = calls[u]
    <3>1. next \in CallRecords /\ next.at = "check"
      <4>1. calls[t] \in CallRecords /\ "check" \in Phases /\ 4 \in Int
        BY <1>0
      <4> QED
        BY <4>1 DEF CallRecords
    <3> HIDE DEF next
    <3> QED
      BY <1>0, <2>1, <3>1
  <2>3. calls'[t].at # "download" /\ calls'[t].at \notin AtInstallation
    BY <2>2 DEF AtInstallation
  <2>4. /\ Listed' = Listed
        /\ \A q \in Listed : /\ active'[q] \in Package
                             /\ active'[q].renewed = active[q].renewed
                             /\ active'[q].path = active[q].path
    BY <1>0, <2>1, StageKeeps
  <2> QED
    BY <2>1, <2>2, <2>3, <2>4, CallKeeps
<1>3. ASSUME NEW passed \in BOOLEAN, Check(t, passed) PROVE UpdatesInv'
  <2> DEFINE c == calls[t]
             holds == c.valid /\ passed /\ (NeedsFile(c.left) => c.on \in staged)
             phase == IF c.left = 1 THEN "conclude" ELSE c.at
             next == [c EXCEPT !.left = c.left - 1, !.at = phase, !.valid = holds]
  <2>1. /\ c.at = "check" /\ active' = active
        /\ updated' = updated /\ creations' = creations
    BY <1>3 DEF Check
  <2>2. Returns(t) \/ calls' = [calls EXCEPT ![t] = next]
    BY <1>3, Zenon DEF Check
  <2>3. /\ calls' \in [UpdateTasks -> CallRecords]
        /\ calls'[t].at \in {"idle", "conclude", "check"}
        /\ \A u \in UpdateTasks \ {t} : calls'[u] = calls[u]
    <3>1. CASE Returns(t)
      BY <1>0, <3>1, CallsMove
    <3>2. CASE calls' = [calls EXCEPT ![t] = next]
      <4>1. holds \in BOOLEAN
        BY Zenon
      <4>2. /\ phase \in {"conclude", "check"} /\ c \in CallRecords /\ phase \in Phases
            /\ c.left - 1 \in Int
        BY <1>0, <2>1 DEF CallRecords
      <4> HIDE DEF holds, phase, c
      <4>3. next \in CallRecords /\ next.at = phase
        BY <1>0, <4>1, <4>2 DEF CallRecords
      <4> HIDE DEF next
      <4> QED
        BY <1>0, <3>2, <4>2, <4>3
    <3> QED
      BY <2>2, <3>1, <3>2
  <2>4. calls'[t].at # "download" /\ calls'[t].at \notin AtInstallation
    BY <2>3 DEF AtInstallation
  <2> QED
    BY <2>1, <2>3, <2>4, SameListing, CallKeeps
<1>4. ASSUME ConcludeVerify(t) PROVE UpdatesInv'
  <2> DEFINE verdict == IF calls[t].valid THEN "Completed" ELSE "Failed"
  <2>1. /\ SetStage(calls[t].on, "verify", verdict) /\ Returns(t)
        /\ updated' = updated /\ creations' = creations
    BY <1>4 DEF ConcludeVerify
  <2>2. /\ calls' \in [UpdateTasks -> CallRecords] /\ calls'[t].at = "idle"
        /\ \A u \in UpdateTasks \ {t} : calls'[u] = calls[u]
    BY <1>0, <2>1, CallsMove
  <2>3. calls'[t].at # "download" /\ calls'[t].at \notin AtInstallation
    BY <2>2 DEF AtInstallation
  <2>4. verdict \in Stage
    BY <1>0
  <2> HIDE DEF verdict
  <2>5. /\ Listed' = Listed
        /\ \A q \in Listed : /\ active'[q] \in Package
                             /\ active'[q].renewed = active[q].renewed
                             /\ active'[q].path = active[q].path
    BY <2>1, <2>4, StageKeeps
  <2> QED
    BY <2>1, <2>2, <2>3, <2>5, CallKeeps
<1> QED
  BY <1>1, <1>2, <1>3, <1>4

LEMMA InstallationKeeps ==
    ASSUME UpdatesInv, NEW t \in UpdateTasks
    PROVE  /\ \A p \in Packages : StartInstall(t, p) => UpdatesInv'
           /\ MakeBackup(t) => UpdatesInv'
           /\ PerformInstallation(t) => UpdatesInv'
           /\ CompleteInstall(t) => UpdatesInv'
           /\ AutoRollback(t) => UpdatesInv'
           /\ InstallFails(t) => UpdatesInv'
<1>0. /\ {"backup", "install", "complete", "move", "rollback", "fail", "idle"}
           \subseteq Phases
      /\ {"Installing", "Completed", "Failed"} \subseteq Stage
  BY DEF Phases, Stage
<1>1. ASSUME NEW p \in Packages, StartInstall(t, p) PROVE UpdatesInv'
  <2> DEFINE rec == [active[p] EXCEPT !.status = "Installing", !.install = "Installing"]
  <2>1. /\ p \in Listed /\ active[p].path /\ active' = With(p, rec)
        /\ Begins(t, p, "backup") /\ updated' = updated /\ creations' = creations
    BY <1>1 DEF StartInstall
  <2>2. rec \in Package /\ rec.renewed = active[p].renewed /\ rec.path = active[p].path
    BY <1>0, <2>1 DEF Package, UpdatesInv, UpdatesShape
  <2> HIDE DEF rec
  <2>3. /\ Listed' = Listed
        /\ \A q \in Listed : active'[q] = IF q = p THEN rec ELSE active[q]
    BY <2>1 DEF With, Listed
  <2>4. \A q \in Listed : /\ active'[q] \in Package
                          /\ active'[q].renewed = active[q].renewed
                          /\ active'[q].path = active[q].path
    BY <2>2, <2>3 DEF UpdatesInv, UpdatesShape
  <2>5. /\ calls' \in [UpdateTasks -> CallRecords] /\ calls'[t].at = "backup"
        /\ calls'[t].on = p /\ \A u \in UpdateTasks \ {t} : calls'[u] = calls[u]
    BY <1>0, <2>1, CallsMove
  <2>6. calls'[t].at # "download" /\ calls'[t].on \in Listed /\ active[calls'[t].on].path
    BY <2>1, <2>5, Zenon
  <2> QED
    BY <2>1, <2>3, <2>4, <2>5, <2>6, CallKeeps
<1>2. ASSUME MakeBackup(t) PROVE UpdatesInv'
  <2>1. /\ calls[t].at = "backup" /\ (GoesTo(t, "install") \/ Returns(t))
        /\ active' = active /\ updated' = updated /\ creations' = creations
    BY <1>2 DEF MakeBackup
  <2>2. /\ calls' \in [UpdateTasks -> CallRecords]
        /\ \/ calls'[t].at = "install" /\ calls'[t].on = calls[t].on
           \/ calls'[t].at = "idle"
        /\ \A u \in UpdateTasks \ {t} : calls'[u] = calls[u]
    BY <1>0, <2>1, CallsMove
  <2>3. /\ calls'[t].at # "download"
        /\ calls'[t].at \in AtInstallation =>
             calls'[t].on = calls[t].on /\ calls[t].at \in AtInstallation
    BY <2>1, <2>2 DEF AtInstallation
  <2> QED
    BY <2>1, <2>2, <2>3, SameListing, CallKeeps
<1>3. ASSUME PerformInstallation(t) PROVE UpdatesInv'
  <2>1. /\ calls[t].at = "install" /\ (GoesTo(t, "complete") \/ GoesTo(t, "rollback"))
        /\ active' = active /\ updated' = updated /\ creations' = creations
    BY <1>3 DEF PerformInstallation
  <2>2. /\ calls' \in [UpdateTasks -> CallRecords]
        /\ calls'[t].at \in {"complete", "rollback"} /\ calls'[t].on = calls[t].on
        /\ \A u \in UpdateTasks \ {t} : calls'[u] = calls[u]
    BY <1>0, <2>1, CallsMove
  <2>3. /\ calls'[t].at # "download"
        /\ calls'[t].on = calls[t].on /\ calls[t].at \in AtInstallation
    BY <2>1, <2>2 DEF AtInstallation
  <2> QED
    BY <2>1, <2>2, <2>3, SameListing, CallKeeps
<1>4. ASSUME CompleteInstall(t) PROVE UpdatesInv'
  <2>1. /\ calls[t].at = "complete" /\ GoesTo(t, "move")
        /\ SetStage(calls[t].on, "install", "Completed")
        /\ updated' = updated /\ creations' = creations
    BY <1>4 DEF CompleteInstall
  <2>2. /\ calls' \in [UpdateTasks -> CallRecords]
        /\ calls'[t].at = "move" /\ calls'[t].on = calls[t].on
        /\ \A u \in UpdateTasks \ {t} : calls'[u] = calls[u]
    BY <1>0, <2>1, CallsMove
  <2>3. /\ calls'[t].at # "download"
        /\ calls'[t].on = calls[t].on /\ calls[t].at \in AtInstallation
    BY <2>1, <2>2 DEF AtInstallation
  <2>4. /\ Listed' = Listed
        /\ \A q \in Listed : /\ active'[q] \in Package
                             /\ active'[q].renewed = active[q].renewed
                             /\ active'[q].path = active[q].path
    BY <1>0, <2>1, StageKeeps
  <2> QED
    BY <2>1, <2>2, <2>3, <2>4, CallKeeps
<1>5. ASSUME AutoRollback(t) PROVE UpdatesInv'
  <2>1. /\ GoesTo(t, "fail") /\ active' = active
        /\ updated' = updated /\ creations' = creations
    BY <1>5 DEF AutoRollback
  <2>2. /\ calls' \in [UpdateTasks -> CallRecords] /\ calls'[t].at = "fail"
        /\ \A u \in UpdateTasks \ {t} : calls'[u] = calls[u]
    BY <1>0, <2>1, CallsMove
  <2>3. calls'[t].at # "download" /\ calls'[t].at \notin AtInstallation
    BY <2>2 DEF AtInstallation
  <2> QED
    BY <2>1, <2>2, <2>3, SameListing, CallKeeps
<1>6. ASSUME InstallFails(t) PROVE UpdatesInv'
  <2>1. /\ SetStage(calls[t].on, "install", "Failed") /\ Returns(t)
        /\ updated' = updated /\ creations' = creations
    BY <1>6 DEF InstallFails
  <2>2. /\ calls' \in [UpdateTasks -> CallRecords] /\ calls'[t].at = "idle"
        /\ \A u \in UpdateTasks \ {t} : calls'[u] = calls[u]
    BY <1>0, <2>1, CallsMove
  <2>3. calls'[t].at # "download" /\ calls'[t].at \notin AtInstallation
    BY <2>2 DEF AtInstallation
  <2>4. /\ Listed' = Listed
        /\ \A q \in Listed : /\ active'[q] \in Package
                             /\ active'[q].renewed = active[q].renewed
                             /\ active'[q].path = active[q].path
    BY <1>0, <2>1, StageKeeps
  <2> QED
    BY <2>1, <2>2, <2>3, <2>4, CallKeeps
<1> QED
  BY <1>1, <1>2, <1>3, <1>4, <1>5, <1>6

\* A new package under an id is younger than what was moved under it, and known as
\* renewed to the installations of the older one.
LEMMA CreationKeeps ==
    ASSUME UpdatesInv, NEW p \in Packages, CreatePackage(p)
    PROVE  UpdatesInv'
<1> DEFINE rec == [status |-> "Pending", download |-> "Pending", verify |-> "Pending",
                   install |-> "Pending", path |-> FALSE, renewed |-> Installing(p)]
<1> USE DEF UpdatesInv, UpdatesShape
<1>1. /\ active' = With(p, rec) /\ creations' = [creations EXCEPT ![p] = @ + 1]
      /\ updated' = updated /\ calls' = calls
  BY DEF CreatePackage
<1>2. rec \in Package /\ rec.renewed = Installing(p)
  <2>1. Installing(p) \in BOOLEAN
    BY Zenon DEF Installing
  <2> QED
    BY <2>1 DEF Package, Stage
<1> HIDE DEF rec
<1>3. /\ Listed' = Listed \cup {p} /\ active'[p] = rec
      /\ \A q \in Listed \ {p} : active'[q] = active[q]
  BY <1>1 DEF With, Listed
<1>4. /\ creations' \in [Packages -> Nat] /\ creations'[p] = creations[p] + 1
      /\ \A q \in Packages \ {p} : creations'[q] = creations[q]
  BY <1>1
<1>5. UpdatesShape'
  BY <1>1, <1>2, <1>3, <1>4
<1>6. InstallsDownloaded'
  <2> SUFFICES ASSUME NEW t \in UpdateTasks, calls[t].at \in AtInstallation,
                      calls[t].on \in Listed'
               PROVE  active'[calls[t].on].path \/ active'[calls[t].on].renewed
    BY <1>1 DEF InstallsDownloaded
  <2>1. CASE calls[t].on = p
    <3>1. Installing(p)
      BY <2>1 DEF Installing, AtInstallation
    <3> QED
      BY <1>2, <1>3, <2>1, <3>1, Zenon
  <2>2. CASE calls[t].on # p
    <3>1. calls[t].on \in Listed /\ active'[calls[t].on] = active[calls[t].on]
      BY <1>3, <2>2
    <3>2. active[calls[t].on].path \/ active[calls[t].on].renewed
      BY <3>1, Zenon DEF InstallsDownloaded
    <3> QED
      BY <3>1, <3>2, Zenon
  <2> QED
    BY <2>1, <2>2
<1>7. DownloadsListed'
  BY <1>1, <1>3 DEF DownloadsListed
<1>8. CreationsCounted' /\ MovedOnce'
  <2>1. \A m \in updated : /\ m.package \in Packages /\ m.creation \in Nat
                           /\ m.creation <= creations[m.package]
    BY DEF CreationsCounted, Moved
  <2>2. ASSUME NEW m \in updated
        PROVE  /\ m.creation <= creations'[m.package]
               /\ m.package \in Listed' => m.creation < creations'[m.package]
    <3>1. CASE m.package = p
      BY <1>4, <2>1, <3>1
    <3>2. CASE m.package # p
      BY <1>3, <1>4, <2>1, <3>2 DEF MovedOnce
    <3> QED
      BY <3>1, <3>2
  <2>3. \A q \in Listed' : creations'[q] >= 1
    BY <1>3, <1>4 DEF CreationsCounted
  <2>4. CreationsCounted'
    BY <1>1, <2>2, <2>3 DEF CreationsCounted
  <2>5. MovedOnce'
    BY <1>1, <2>2 DEF MovedOnce
  <2> QED
    BY <2>4, <2>5
<1> QED
  BY <1>5, <1>6, <1>7, <1>8

LEMMA MoveKeepsInv ==
    ASSUME UpdatesInv, NEW t \in UpdateTasks, MoveToHistory(t)
    PROVE  UpdatesInv'
<1> DEFINE p == calls[t].on
           moved == [package |-> p, creation |-> creations[p], path |-> active[p].path,
                     renewed |-> active[p].renewed]
<1> USE DEF UpdatesInv
<1>1. /\ calls' \in [UpdateTasks -> CallRecords] /\ calls'[t].at = "idle"
      /\ \A u \in UpdateTasks \ {t} : calls'[u] = calls[u]
  BY CallsMove DEF MoveToHistory, Phases
<1>2. /\ calls[t].at = "move" /\ creations' = creations
      /\ \A u \in UpdateTasks : calls[u].at # "download"
  BY DEF MoveToHistory, ActiveFree
<1>3. CASE p \in Listed
  <2>1. /\ updated' = updated \cup {moved} /\ Listed' = Listed \ {p}
        /\ \A q \in Listed' : active'[q] = active[q]
    BY <1>3 DEF MoveToHistory, ToHistory, Restrict, Listed
  <2>2. active[p] \in Package /\ p \in Packages /\ creations[p] \in Nat
    BY <1>3 DEF UpdatesShape
  <2>3. /\ moved \in Moved /\ moved.package = p /\ moved.creation = creations[p]
        /\ moved.path = active[p].path /\ moved.renewed = active[p].renewed
    BY <2>2 DEF Moved, Package
  <2>4. moved.path \/ moved.renewed
    <3>1. calls[t].at \in AtInstallation
      BY <1>2 DEF AtInstallation
    <3>2. active[p].path \/ active[p].renewed
      BY <1>3, <3>1, Zenon DEF InstallsDownloaded
    <3> QED
      BY <2>3, <3>2, Zenon
  <2> HIDE DEF moved
  <2>5. UpdatesShape'
    BY <1>1, <1>2, <2>1, <2>3 DEF UpdatesShape
  <2>6. InstallsDownloaded'
    <3> SUFFICES ASSUME NEW u \in UpdateTasks, calls'[u].at \in AtInstallation,
                        calls'[u].on \in Listed'
                 PROVE  active'[calls'[u].on].path \/ active'[calls'[u].on].renewed
      BY DEF InstallsDownloaded
    <3>1. u # t /\ calls'[u] = calls[u]
      BY <1>1 DEF AtInstallation
    <3>2. calls[u].on \in Listed /\ active'[calls[u].on] = active[calls[u].on]
      BY <2>1, <3>1
    <3>3. active[calls[u].on].path \/ active[calls[u].on].renewed
      BY <3>1, <3>2, Zenon DEF InstallsDownloaded
    <3> QED
      BY <3>1, <3>2, <3>3, Zenon
  <2>7. DownloadsListed'
    BY <1>1, <1>2 DEF DownloadsListed
  <2>8. CreationsCounted'
    BY <1>2, <2>1, <2>2, <2>3 DEF CreationsCounted
  <2>9. MovedOnce'
    <3>1. \A m, n \in updated' : m.package = n.package /\ m.creation = n.creation => m = n
      <4>1. \A m \in updated : ~(m.package = p /\ m.creation = creations[p])
        <5>1. \A m \in updated : m.package = p => m.creation < creations[p]
          BY <1>3 DEF MovedOnce
        <5> QED
          BY <2>2, <5>1
      <4>2. \A m, n \in updated :
              m.package = n.package /\ m.creation = n.creation => m = n
        BY DEF MovedOnce
      <4> HIDE DEF p
      <4> QED
        BY <2>1, <2>3, <4>1, <4>2
    <3>2. \A m \in updated' : m.package \in Listed' => m.creation < creations'[m.package]
      BY <1>2, <2>1, <2>3 DEF MovedOnce
    <3>3. \A m \in updated' : m.path \/ m.renewed
      <4> SUFFICES ASSUME NEW m \in updated' PROVE m.path \/ m.renewed
        OBVIOUS
      <4>1. m \in updated \/ m = moved
        BY <2>1
      <4> QED
        BY <2>4, <4>1, Zenon DEF MovedOnce
    <3> QED
      BY <3>1, <3>2, <3>3, Zenon DEF MovedOnce
  <2> QED
    BY <2>5, <2>6, <2>7, <2>8, <2>9
<1>4. CASE p \notin Listed
  <2>1. active' = active /\ updated' = updated
    BY <1>4 DEF MoveToHistory
  <2>2. calls'[t].at # "download" /\ calls'[t].at \notin AtInstallation
    BY <1>1 DEF AtInstallation
  <2> QED
    BY <1>1, <1>2, <2>1, <2>2, SameListing, CallKeeps
<1> QED
  BY <1>3, <1>4

LEMMA CancelKeeps ==
    ASSUME UpdatesInv, NEW p \in Packages, CancelUpdate(p)
    PROVE  UpdatesInv'
<1> DEFINE Cancelled(s) == IF s \in {"Pending", "Downloading", "Verifying"}
                           THEN "Failed" ELSE s
           rec == [active[p] EXCEPT !.status = "Failed",
                     !.download = Cancelled(@), !.verify = Cancelled(@),
                     !.install = Cancelled(@)]
<1>1. /\ p \in Listed /\ active' = With(p, rec) /\ updated' = updated
      /\ creations' = creations /\ calls' = calls
  BY DEF CancelUpdate
<1>2. active[p] \in Package /\ calls \in [UpdateTasks -> CallRecords]
  BY <1>1 DEF UpdatesInv, UpdatesShape
<1>3. rec \in Package /\ rec.renewed = active[p].renewed /\ rec.path = active[p].path
  <2>1. \A s \in Stage : Cancelled(s) \in Stage
    BY DEF Stage
  <2>2. "Failed" \in Stage
    BY DEF Stage
  <2> HIDE DEF Cancelled
  <2> QED
    BY <1>2, <2>1, <2>2 DEF Package
<1> HIDE DEF rec
<1>4. /\ Listed' = Listed
      /\ \A q \in Listed : active'[q] = IF q = p THEN rec ELSE active[q]
  BY <1>1 DEF With, Listed
<1>5. \A q \in Listed : /\ active'[q] \in Package
                        /\ active'[q].renewed = active[q].renewed
                        /\ active[q].path => active'[q].path
  BY <1>3, <1>4 DEF UpdatesInv, UpdatesShape
<1>6. \A u \in UpdateTasks :
        /\ calls'[u].at \in AtInstallation =>
             calls'[u].on = calls[u].on /\ calls[u].at \in AtInstallation
        /\ calls'[u].at = "download" => calls'[u].on \in Listed
  BY <1>1 DEF UpdatesInv, DownloadsListed
<1> QED
  BY <1>1, <1>2, <1>4, <1>5, <1>6, UpdatesKeep

LEMMA UpdatesStep == UpdatesInv /\ [UpdatesNext]_UpdatesVars => UpdatesInv'
<1> SUFFICES ASSUME UpdatesInv, [UpdatesNext]_UpdatesVars PROVE UpdatesInv'
  OBVIOUS
<1>1. ASSUME active' = active, updated' = updated, creations' = creations, calls' = calls
      PROVE  UpdatesInv'
  <2>1. calls' \in [UpdateTasks -> CallRecords]
    BY <1>1 DEF UpdatesInv, UpdatesShape
  <2>2. \A p \in Listed : /\ active'[p] \in Package
                          /\ active'[p].renewed = active[p].renewed
                          /\ active[p].path => active'[p].path
    BY <1>1, SameListing
  <2>3. \A u \in UpdateTasks :
          /\ calls'[u].at \in AtInstallation =>
               calls'[u].on = calls[u].on /\ calls[u].at \in AtInstallation
          /\ calls'[u].at = "download" => calls'[u].on \in Listed
    BY <1>1 DEF UpdatesInv, DownloadsListed
  <2> QED
    BY <1>1, <2>1, <2>2, <2>3, SameListing, UpdatesKeep
<1>2. ASSUME NEW p \in Packages, CreatePackage(p) \/ CancelUpdate(p) PROVE UpdatesInv'
  BY <1>2, CreationKeeps, CancelKeeps
<1>3. ASSUME NEW p \in Packages, CleanupOldUpdates(p) PROVE UpdatesInv'
  BY <1>1, <1>3 DEF CleanupOldUpdates
<1>4. ASSUME NEW t \in UpdateTasks, NEW p \in Packages,
             StartDownload(t, p) \/ StartVerify(t, p) \/ StartInstall(t, p)
      PROVE  UpdatesInv'
  BY <1>4, DownloadsKeep, VerificationKeeps, InstallationKeeps
<1>5. ASSUME NEW t \in UpdateTasks, NEW passed \in BOOLEAN, Check(t, passed)
      PROVE  UpdatesInv'
  BY <1>5, VerificationKeeps
<1>6. ASSUME NEW t \in UpdateTasks,
             \/ Downloaded(t) \/ DownloadFails(t) \/ MarkVerifying(t)
             \/ ConcludeVerify(t) \/ MakeBackup(t) \/ PerformInstallation(t)
             \/ CompleteInstall(t) \/ MoveToHistory(t) \/ AutoRollback(t)
             \/ InstallFails(t)
      PROVE  UpdatesInv'
  BY <1>6, DownloadsKeep, VerificationKeeps, InstallationKeeps, MoveKeepsInv
<1>7. CASE RollbackUpdate
  BY <1>1, <1>7 DEF RollbackUpdate
<1>8. CASE UNCHANGED UpdatesVars
  BY <1>1, <1>8 DEF UpdatesVars
<1> QED
  BY <1>2, <1>3, <1>4, <1>5, <1>6, <1>7, <1>8 DEF UpdatesNext

LEMMA UpdatesHold == UpdatesSpec => []UpdatesInv
BY UpdatesInitInv, UpdatesStep, PTL DEF UpdatesSpec

\* Every call looks its package up again after an await (security/secure_updates.rs):
\* for any number of packages, calls and creations, each created package reaches the
\* history at most once, is active no more, and was downloaded or was created while an
\* older one of its id was being installed.
THEOREM PackagesMoveOnce == UpdatesSpec => []MovedOnce
<1>1. UpdatesInv => MovedOnce
  BY DEF UpdatesInv
<1> QED
  BY <1>1, UpdatesHold, PTL

(* ConfigSecurity: the file has the content of the last save.                   *)

SaveStates == {"idle", "validate", "restore", "rename", "note"}

SaveRecords == [at: SaveStates, data: Anything \cup {Missing0},
                backup: 0..MaxSecond \cup {NoBackup}]

SaveTypes ==
  /\ disk \in Valid \cup {Missing0, Partial}
  /\ temporary \in Valid \cup {Missing0, Partial} /\ second \in 0..MaxSecond
  /\ backups \in [0..MaxSecond -> Valid \cup {Missing0, Partial}]
  /\ save \in [Savers -> SaveRecords]
  /\ \A s \in Savers : save[s].at = "idle" => save[s] = Rest
  /\ \A s \in Savers : save[s].at = "restore" => save[s].backup # NoBackup
  /\ \A s \in Savers : save[s].at = "rename" => save[s].data \in Valid

\* A save that no other overlapped finds in its backup, and in its temporary file,
\* what it put there.
SaveInv ==
  /\ SaveTypes
  /\ ~crowded => \A r, s \in Savers : save[r] # Rest /\ save[s] # Rest => r = s
  /\ ~crowded /\ ~cut =>
       /\ (\A s \in Savers : save[s].at # "restore") => disk = due
       /\ \A s \in Savers : save[s].at = "restore" => disk = Partial
       /\ \A s \in Savers :
            save[s].at \in {"validate", "restore"} /\ save[s].backup # NoBackup =>
              backups[save[s].backup] = due
       /\ \A s \in Savers : save[s].at = "rename" => temporary = save[s].data

LEMMA RestRecord == Rest \in SaveRecords /\ Rest.at = "idle"
  BY DEF Rest, SaveRecords, SaveStates

\* A save that moves on leaves the others where they are.
LEMMA SaveSet ==
  ASSUME SaveTypes, NEW s \in Savers, NEW x \in SaveRecords,
         save' = [save EXCEPT ![s] = x]
  PROVE  /\ save' \in [Savers -> SaveRecords]
         /\ \A r \in Savers : save'[r] = IF r = s THEN x ELSE save[r]
  BY DEF SaveTypes

LEMMA SaveMoves ==
  ASSUME SaveTypes, NEW s \in Savers, NEW a \in SaveStates,
         save' = [save EXCEPT ![s].at = a]
  PROVE  /\ save' \in [Savers -> SaveRecords]
         /\ \A r \in Savers : r # s => save'[r] = save[r]
         /\ save'[s].at = a /\ save'[s].data = save[s].data
         /\ save'[s].backup = save[s].backup
  BY DEF SaveTypes, SaveRecords

\* What the invariant says of one save, a save that no other overlaps.
SaveAt(s) ==
  /\ save[s].at # "restore" => disk = due
  /\ save[s].at = "restore" => disk = Partial
  /\ save[s].at \in {"validate", "restore"} /\ save[s].backup # NoBackup =>
       backups[save[s].backup] = due
  /\ save[s].at = "rename" => temporary = save[s].data

Alone(s) == \A r \in Savers \ {s} : save[r] = Rest

LEMMA SaveAlone ==
  ASSUME SaveInv, NEW s \in Savers, save[s] # Rest, ~crowded
  PROVE  Alone(s) /\ (~cut => SaveAt(s))
<1>1. Alone(s)
  BY DEF SaveInv, Alone
<1>2. (\A r \in Savers : save[r].at # "restore") <=> save[s].at # "restore"
  BY <1>1, RestRecord DEF Alone
<1> QED
  BY <1>1, <1>2 DEF SaveInv, SaveAt

\* So that it is enough to follow that one.
LEMMA AloneEnough ==
  ASSUME SaveTypes', NEW s \in Savers,
         ~crowded' => Alone(s)' /\ (~cut' => SaveAt(s)')
  PROVE  SaveInv'
<1>1. ~crowded' => \A r \in Savers : r # s => save'[r] = Rest
  BY DEF Alone
<1>2. ~crowded' /\ ~cut' =>
       /\ (\A r \in Savers : save'[r].at # "restore") => disk' = due'
       /\ \A r \in Savers : save'[r].at = "restore" => disk' = Partial
       /\ \A r \in Savers :
            save'[r].at \in {"validate", "restore"} /\ save'[r].backup # NoBackup =>
              backups'[save'[r].backup] = due'
       /\ \A r \in Savers : save'[r].at = "rename" => temporary' = save'[r].data
  BY <1>1, RestRecord DEF SaveAt
<1> QED
  BY <1>1, <1>2 DEF SaveInv

LEMMA SaverInitInv == ConfigSecurityInit => SaveInv
<1> SUFFICES ASSUME ConfigSecurityInit PROVE SaveInv
  OBVIOUS
<1>1. \A s \in Savers : save[s] = Rest
  BY DEF ConfigSecurityInit
<1>2. SaveTypes
  BY <1>1, RestRecord, ConfigSecurityAssumption DEF ConfigSecurityInit, SaveTypes
<1> QED
  BY <1>1, <1>2, RestRecord DEF ConfigSecurityInit, SaveInv

\* The backup is made of what is due, when no other save is under way.
LEMMA SaveBeginsInv ==
  ASSUME SaveInv, NEW s \in Savers, NEW content \in Anything, SaveBegins(s, content)
  PROVE  SaveInv'
<1> DEFINE x == [at |-> "validate", data |-> content,
                 backup |-> IF disk = Missing0 THEN NoBackup ELSE second]
<1>1. /\ save[s] = Rest /\ save' = [save EXCEPT ![s] = x]
      /\ IF disk = Missing0 THEN UNCHANGED backups
         ELSE backups' = [backups EXCEPT ![second] = disk]
      /\ crowded' = (crowded \/ \E r \in Savers \ {s} : save[r] # Rest)
      /\ UNCHANGED <<disk, temporary, second, records, cut, due>>
  BY DEF SaveBegins, CreateBackup, Overlapping
<1>2. SaveTypes
  BY DEF SaveInv
<1>3. x \in SaveRecords
  BY <1>2 DEF SaveRecords, SaveStates, SaveTypes
<1>4. /\ save' \in [Savers -> SaveRecords]
      /\ \A r \in Savers : save'[r] = IF r = s THEN x ELSE save[r]
  BY <1>1, <1>2, <1>3, SaveSet
<1>5. backups' \in [0..MaxSecond -> Valid \cup {Missing0, Partial}]
  BY <1>1, <1>2 DEF SaveTypes
<1>6. SaveTypes'
  BY <1>1, <1>2, <1>4, <1>5 DEF SaveTypes
<1>7. ASSUME ~crowded' PROVE Alone(s)' /\ (~cut' => SaveAt(s)')
  <2>1. ~crowded /\ \A r \in Savers : save[r] = Rest
    BY <1>1, <1>7
  <2>2. Alone(s)'
    BY <1>4, <2>1 DEF Alone
  <2>3. ASSUME ~cut PROVE SaveAt(s)'
    <3>1. disk = due
      BY <2>1, <2>3, RestRecord DEF SaveInv
    <3>2. disk # Missing0 => backups'[second] = disk
      BY <1>1, <1>2 DEF SaveTypes
    <3> QED
      BY <1>1, <1>4, <3>1, <3>2 DEF SaveAt
  <2> QED
    BY <1>1, <2>2, <2>3
<1> QED
  BY <1>6, <1>7, AloneEnough

LEMMA SaveRefusedInv ==
  ASSUME SaveInv, NEW s \in Savers, SaveRefused(s) PROVE SaveInv'
<1>1. /\ save[s].at = "validate"
      /\ UNCHANGED <<temporary, backups, second, records, cut, crowded, due>>
  BY DEF SaveRefused
<1>2. SaveTypes /\ save[s] # Rest
  BY <1>1, RestRecord DEF SaveInv
<1>3. CASE save[s].backup = NoBackup
  <2>1. save' = [save EXCEPT ![s] = Rest] /\ disk' = disk
    BY <1>3 DEF SaveRefused
  <2>2. /\ save' \in [Savers -> SaveRecords]
        /\ \A r \in Savers : save'[r] = IF r = s THEN Rest ELSE save[r]
    BY <1>2, <2>1, RestRecord, SaveSet
  <2>3. SaveTypes'
    BY <1>1, <1>2, <2>1, <2>2, RestRecord DEF SaveTypes
  <2>4. ~crowded' => Alone(s)' /\ (~cut' => SaveAt(s)')
    BY <1>1, <1>2, <2>1, <2>2, SaveAlone, RestRecord DEF Alone, SaveAt
  <2> QED
    BY <2>3, <2>4, AloneEnough
<1>4. CASE save[s].backup # NoBackup
  <2>1. save' = [save EXCEPT ![s].at = "restore"] /\ disk' = Partial
    BY <1>4 DEF SaveRefused
  <2>2. /\ save' \in [Savers -> SaveRecords]
        /\ \A r \in Savers : r # s => save'[r] = save[r]
        /\ save'[s].at = "restore" /\ save'[s].backup = save[s].backup
    BY <1>2, <2>1, SaveMoves DEF SaveStates
  <2>3. SaveTypes'
    BY <1>1, <1>2, <1>4, <2>1, <2>2 DEF SaveTypes
  <2>4. ~crowded' => Alone(s)' /\ (~cut' => SaveAt(s)')
    BY <1>1, <1>2, <2>1, <2>2, SaveAlone DEF Alone, SaveAt
  <2> QED
    BY <2>3, <2>4, AloneEnough
<1> QED
  BY <1>3, <1>4

LEMMA SaveRestoredInv ==
  ASSUME SaveInv, NEW s \in Savers, SaveRestored(s) PROVE SaveInv'
<1>1. /\ save[s].at = "restore" /\ disk' = backups[save[s].backup]
      /\ save' = [save EXCEPT ![s] = Rest]
      /\ UNCHANGED <<temporary, backups, second, records, cut, crowded, due>>
  BY DEF SaveRestored
<1>2. SaveTypes /\ save[s] # Rest
  BY <1>1, RestRecord DEF SaveInv
<1>3. save[s].backup \in 0..MaxSecond /\ save[s].backup # NoBackup
  BY <1>1, <1>2 DEF SaveTypes, SaveRecords
<1>4. /\ save' \in [Savers -> SaveRecords]
      /\ \A r \in Savers : save'[r] = IF r = s THEN Rest ELSE save[r]
  BY <1>1, <1>2, RestRecord, SaveSet
<1>5. SaveTypes'
  BY <1>1, <1>2, <1>3, <1>4, RestRecord DEF SaveTypes
<1>6. ~crowded' => Alone(s)' /\ (~cut' => SaveAt(s)')
  BY <1>1, <1>2, <1>3, <1>4, SaveAlone, RestRecord DEF Alone, SaveAt
<1> QED
  BY <1>5, <1>6, AloneEnough

LEMMA SaveWritesInv ==
  ASSUME SaveInv, NEW s \in Savers, SaveWritesTemporary(s) PROVE SaveInv'
<1>1. /\ save[s].at = "validate" /\ save[s].data \in Valid
      /\ temporary' = save[s].data /\ save' = [save EXCEPT ![s].at = "rename"]
      /\ UNCHANGED <<disk, backups, second, records, cut, crowded, due>>
  BY DEF SaveWritesTemporary
<1>2. SaveTypes /\ save[s] # Rest
  BY <1>1, RestRecord DEF SaveInv
<1>3. /\ save' \in [Savers -> SaveRecords]
      /\ \A r \in Savers : r # s => save'[r] = save[r]
      /\ save'[s].at = "rename" /\ save'[s].data = save[s].data
  BY <1>1, <1>2, SaveMoves DEF SaveStates
<1>4. SaveTypes'
  BY <1>1, <1>2, <1>3 DEF SaveTypes
<1>5. ~crowded' => Alone(s)' /\ (~cut' => SaveAt(s)')
  BY <1>1, <1>2, <1>3, SaveAlone DEF Alone, SaveAt
<1> QED
  BY <1>4, <1>5, AloneEnough

LEMMA SaveRenamesInv ==
  ASSUME SaveInv, NEW s \in Savers, SaveRenames(s) PROVE SaveInv'
<1>1. /\ save[s].at = "rename"
      /\ UNCHANGED <<backups, second, records, cut, crowded>>
  BY DEF SaveRenames
<1>2. SaveTypes /\ save[s] # Rest
  BY <1>1, RestRecord DEF SaveInv
<1>3. CASE temporary = Missing0
  <2>1. save' = [save EXCEPT ![s] = Rest] /\ UNCHANGED <<disk, temporary, due>>
    BY <1>3 DEF SaveRenames
  <2>2. /\ save' \in [Savers -> SaveRecords]
        /\ \A r \in Savers : save'[r] = IF r = s THEN Rest ELSE save[r]
    BY <1>2, <2>1, RestRecord, SaveSet
  <2>3. SaveTypes'
    BY <1>1, <1>2, <2>1, <2>2, RestRecord DEF SaveTypes
  <2>4. ~crowded' => Alone(s)' /\ (~cut' => SaveAt(s)')
    BY <1>1, <1>2, <2>1, <2>2, SaveAlone, RestRecord DEF Alone, SaveAt
  <2> QED
    BY <2>3, <2>4, AloneEnough
<1>4. CASE temporary # Missing0
  <2>1. /\ disk' = temporary /\ temporary' = Missing0 /\ due' = save[s].data
        /\ save' = [save EXCEPT ![s].at = "note"]
    BY <1>4 DEF SaveRenames
  <2>2. /\ save' \in [Savers -> SaveRecords]
        /\ \A r \in Savers : r # s => save'[r] = save[r]
        /\ save'[s].at = "note"
    BY <1>2, <2>1, SaveMoves DEF SaveStates
  <2>3. SaveTypes'
    BY <1>1, <1>2, <1>4, <2>1, <2>2 DEF SaveTypes
  <2>4. ~crowded' => Alone(s)' /\ (~cut' => SaveAt(s)')
    BY <1>1, <1>2, <2>1, <2>2, SaveAlone DEF Alone, SaveAt
  <2> QED
    BY <2>3, <2>4, AloneEnough
<1> QED
  BY <1>3, <1>4

LEMMA SaveNotesInv ==
  ASSUME SaveInv, NEW s \in Savers, SaveNotes(s) PROVE SaveInv'
<1>1. /\ save[s].at = "note" /\ save' = [save EXCEPT ![s] = Rest]
      /\ UNCHANGED <<disk, temporary, backups, second, cut, crowded, due>>
  BY DEF SaveNotes
<1>2. SaveTypes /\ save[s] # Rest
  BY <1>1, RestRecord DEF SaveInv
<1>3. /\ save' \in [Savers -> SaveRecords]
      /\ \A r \in Savers : save'[r] = IF r = s THEN Rest ELSE save[r]
  BY <1>1, <1>2, RestRecord, SaveSet
<1>4. SaveTypes'
  BY <1>1, <1>2, <1>3, RestRecord DEF SaveTypes
<1>5. ~crowded' => Alone(s)' /\ (~cut' => SaveAt(s)')
  BY <1>1, <1>2, <1>3, SaveAlone, RestRecord DEF Alone, SaveAt
<1> QED
  BY <1>4, <1>5, AloneEnough

\* A save that fails leaves the file alone, unless it was being restored.
LEMMA SaveFailsInv ==
  ASSUME SaveInv, NEW s \in Savers, SaveFails(s) PROVE SaveInv'
<1>1. /\ save[s] # Rest /\ temporary' \in {temporary, Partial}
      /\ cut' = (cut \/ save[s].at = "restore")
      /\ save' = [save EXCEPT ![s] = Rest]
      /\ UNCHANGED <<disk, backups, second, records, crowded, due>>
  BY DEF SaveFails
<1>2. SaveTypes
  BY DEF SaveInv
<1>3. /\ save' \in [Savers -> SaveRecords]
      /\ \A r \in Savers : save'[r] = IF r = s THEN Rest ELSE save[r]
  BY <1>1, <1>2, RestRecord, SaveSet
<1>4. SaveTypes'
  BY <1>1, <1>2, <1>3, RestRecord DEF SaveTypes
<1>5. ~crowded' => Alone(s)' /\ (~cut' => SaveAt(s)')
  BY <1>1, <1>2, <1>3, SaveAlone, RestRecord DEF Alone, SaveAt
<1> QED
  BY <1>4, <1>5, AloneEnough

\* A rollback that overlaps with a save is noted; without one no backup matters, be
\* it whole or not.
LEMMA RollBackInv ==
  ASSUME SaveInv, (\E given \in BOOLEAN : RollBack(given)) \/ BackupFails
  PROVE  SaveInv'
<1>1. /\ \/ UNCHANGED backups
         \/ \E x \in {disk, Partial} : backups' = [backups EXCEPT ![second] = x]
      /\ crowded' = (crowded \/ \E s \in Savers : save[s] # Rest)
      /\ UNCHANGED <<disk, temporary, second, save, cut, due>>
  BY DEF RollBack, BackupFails, CreateBackup, Overlapping
<1>2. SaveTypes'
  BY <1>1 DEF SaveInv, SaveTypes
<1>3. ~crowded' => ~crowded /\ \A s \in Savers : save[s] = Rest
  BY <1>1
<1> QED
  BY <1>1, <1>2, <1>3, RestRecord DEF SaveInv

LEMMA SaverCrashInv == SaveInv /\ SaverCrash => SaveInv'
<1> SUFFICES ASSUME SaveInv, SaverCrash PROVE SaveInv'
  OBVIOUS
<1>1. /\ save' = [s \in Savers |-> Rest] /\ \A s \in Savers : save'[s] = Rest
      /\ cut' = (cut \/ \E s \in Savers : save[s].at = "restore")
      /\ UNCHANGED <<disk, temporary, backups, second, crowded, due>>
  BY DEF SaverCrash
<1>2. SaveTypes'
  BY <1>1, RestRecord DEF SaveInv, SaveTypes
<1> QED
  BY <1>1, <1>2, RestRecord DEF SaveInv

LEMMA SaverElsewhere == SaveInv /\ (LoadSecured \/ NextSecond) => SaveInv'
<1> SUFFICES ASSUME SaveInv, LoadSecured \/ NextSecond PROVE SaveInv'
  OBVIOUS
<1>1. /\ UNCHANGED <<disk, temporary, backups, save, cut, crowded, due>>
      /\ second' \in 0..MaxSecond
  BY ConfigSecurityAssumption DEF LoadSecured, NextSecond, SaveInv, SaveTypes
<1> QED
  BY <1>1 DEF SaveInv, SaveTypes

LEMMA SaveHolds == ConfigSecuritySpec => []SaveInv
<1>1. SaveInv /\ [ConfigSecurityNext]_ConfigSecurityVars => SaveInv'
  <2> SUFFICES ASSUME SaveInv, [ConfigSecurityNext]_ConfigSecurityVars PROVE SaveInv'
    OBVIOUS
  <2>1. ASSUME NEW s \in Savers, NEW content \in Anything, SaveBegins(s, content)
        PROVE  SaveInv'
    BY <2>1, SaveBeginsInv
  <2>2. ASSUME NEW s \in Savers,
               \/ SaveRefused(s) \/ SaveRestored(s) \/ SaveWritesTemporary(s)
               \/ SaveRenames(s) \/ SaveNotes(s) \/ SaveFails(s)
        PROVE  SaveInv'
    BY <2>2, SaveRefusedInv, SaveRestoredInv, SaveWritesInv, SaveRenamesInv,
       SaveNotesInv, SaveFailsInv
  <2>3. CASE \/ LoadSecured \/ NextSecond \/ SaverCrash
             \/ (\E given \in BOOLEAN : RollBack(given)) \/ BackupFails
    BY <2>3, SaverElsewhere, RollBackInv, SaverCrashInv
  <2>4. CASE UNCHANGED ConfigSecurityVars
    BY <2>4 DEF ConfigSecurityVars, SaveInv, SaveTypes
  <2> QED
    BY <2>1, <2>2, <2>3, <2>4 DEF ConfigSecurityNext
<1> QED
  BY <1>1, SaverInitInv, PTL DEF ConfigSecuritySpec

\* For any number of saves, contents and seconds: unless saves overlapped or a
\* restore was cut short, the file has the content of the last save that was renamed
\* over it (config_security.rs: backup, validate, temporary file, rename, restore).
THEOREM FileStaysTheLastSave == ConfigSecuritySpec => []FileIsLastSave
<1>1. SaveInv => FileIsLastSave
  BY DEF SaveInv, FileIsLastSave
<1> QED
  BY <1>1, SaveHolds, PTL

-----------------------------------------------------------------------------
(* KeyDerivation: what tuning leaves of the strength that was asked for.        *)

LevelNames == {"Low", "Standard", "High", "VeryHigh"}

LEMMA LevelRanks ==
  /\ {Levels[i] : i \in DOMAIN Levels} = LevelNames
  /\ Rank("Low") = 1 /\ Rank("Standard") = 2 /\ Rank("High") = 3 /\ Rank("VeryHigh") = 4
<1>1. /\ DOMAIN Levels = {1, 2, 3, 4} /\ Levels[1] = "Low" /\ Levels[2] = "Standard"
      /\ Levels[3] = "High" /\ Levels[4] = "VeryHigh"
  BY DEF Levels
<1>2. Rank("Low") = 1 /\ Rank("Standard") = 2
  BY <1>1 DEF Rank
<1>3. Rank("High") = 3 /\ Rank("VeryHigh") = 4
  BY <1>1 DEF Rank
<1>4. {Levels[i] : i \in DOMAIN Levels} = LevelNames
  BY <1>1 DEF LevelNames
<1> QED
  BY <1>2, <1>3, <1>4

\* Until something is tuned the parameters are those of the level; what a key is
\* derived with of a memory-hard function stays so.
KeyInv ==
  /\ chosen \in KdfFunctions \X LevelNames /\ tunings \in Nat
  /\ params \in [function: KdfFunctions, iterations: Nat, salt: Nat, key: Nat,
                 memory: Nat, parallelism: Nat, level: LevelNames]
  /\ params.function = chosen[1]
  /\ tunings = 0 => params = Parameters(chosen[1], chosen[2])
  /\ chosen[1] \in MemoryHard =>
       /\ params.iterations = Parameters(chosen[1], chosen[2]).iterations
       /\ params.key = Parameters(chosen[1], chosen[2]).key

LEMMA ParametersOf ==
  ASSUME NEW f \in KdfFunctions, NEW l \in LevelNames
  PROVE  /\ Parameters(f, l) \in [function: KdfFunctions, iterations: Nat, salt: Nat,
                                  key: Nat, memory: Nat, parallelism: Nat,
                                  level: LevelNames]
         /\ Parameters(f, l).function = f
BY DEF Parameters, Fast, Default, HighSecurity, Par, NoCost, KdfFunctions, MemoryHard,
       LevelNames

LEMMA StrengthOrdered ==
  ASSUME NEW f \in KdfFunctions
  PROVE  LET n(l) == Derivation(Parameters(f, l)).iterations
         IN /\ n("Low") <= n("Standard") /\ n("Standard") = n("High")
            /\ n("High") <= n("VeryHigh")
            /\ \A l \in LevelNames : n(l) \in Nat
BY DEF Derivation, Parameters, Fast, Default, HighSecurity, Par, NoCost, KdfFunctions,
       MemoryHard, LevelNames

LEMMA KeyStep == KeyInv /\ [KeyNext]_KeyVars => KeyInv'
<1> SUFFICES ASSUME KeyInv, [KeyNext]_KeyVars PROVE KeyInv'
  OBVIOUS
<1> DEFINE P == [function: KdfFunctions, iterations: Nat, salt: Nat, key: Nat,
                 memory: Nat, parallelism: Nat, level: LevelNames]
<1>1. CASE AutoTune
  <2>1. tunings' \in Nat /\ tunings' # 0 /\ chosen' = chosen
    BY <1>1 DEF AutoTune, KeyInv
  <2>2. /\ params' \in P /\ params'.function = params.function
        /\ params'.key = params.key
        /\ params.function \in MemoryHard => params'.iterations = params.iterations
    <3>1. CASE UNCHANGED params
      BY <3>1 DEF KeyInv
    <3>2. ASSUME NEW q \in Quarters \cup {12, 20}, TuneIterations(q) PROVE <2>2
      <4>1. (params.iterations * q) \div 4 \in Nat
        BY DEF KeyInv, Quarters
      <4> DEFINE n == (params.iterations * q) \div 4
      <4>2. params' = [params EXCEPT !.iterations = n] /\ params.function \notin MemoryHard
        BY <3>2 DEF TuneIterations
      <4> HIDE DEF n
      <4>3. n \in Nat
        BY <4>1 DEF n
      <4> QED
        BY <4>2, <4>3 DEF KeyInv
    <3>3. ASSUME NEW q \in Quarters, NEW r \in Quarters, TuneMemory(q, r) PROVE <2>2
      <4> DEFINE n == (params.memory * q) \div 4
                 k == (params.parallelism * r) \div 4
      <4>1. n \in Nat
        BY DEF KeyInv, Quarters
      <4>2. k \in Nat
        BY DEF KeyInv, Quarters
      <4>3. params' = [params EXCEPT !.memory = n, !.parallelism = k]
        BY <3>3 DEF TuneMemory
      <4> HIDE DEF n, k
      <4> QED
        BY <4>1, <4>2, <4>3 DEF KeyInv
    <3> QED
      BY <1>1, <3>1, <3>2, <3>3 DEF AutoTune
  <2> QED
    BY <2>1, <2>2 DEF KeyInv
<1>2. ASSUME NEW f \in KdfFunctions, NEW i \in DOMAIN Levels, AskAgain(f, Levels[i])
      PROVE  KeyInv'
  <2>1. Levels[i] \in LevelNames
    BY LevelRanks
  <2> DEFINE l == Levels[i]
  <2>2. chosen' = <<f, l>> /\ params' = Parameters(f, l) /\ tunings' = 0
    BY <1>2 DEF AskAgain
  <2> HIDE DEF l
  <2>3. l \in LevelNames
    BY <2>1 DEF l
  <2> QED
    BY <2>2, <2>3, ParametersOf DEF KeyInv
<1>3. CASE UNCHANGED KeyVars
  BY <1>3 DEF KeyVars, KeyInv
<1> QED
  BY <1>1, <1>2, <1>3 DEF KeyNext

LEMMA KeyInvGives == KeyInv => StrengthFollowsLevel
<1> SUFFICES ASSUME KeyInv PROVE StrengthFollowsLevel
  OBVIOUS
<1> DEFINE f == chosen[1]
           n(l) == Derivation(Parameters(f, l)).iterations
<1>1. f \in KdfFunctions /\ chosen[2] \in LevelNames
  BY DEF KeyInv
<1>2. ASSUME tunings = 0, NEW i \in 1..Rank(chosen[2])
      PROVE  Derivation(Parameters(chosen[1], Levels[i])).iterations
               <= Derivation(params).iterations
  <2>1. params = Parameters(f, chosen[2])
    BY <1>2 DEF KeyInv
  <2>2. /\ n("Low") <= n("Standard") /\ n("Standard") = n("High")
        /\ n("High") <= n("VeryHigh")
        /\ \A l \in LevelNames : n(l) \in Nat
    BY <1>1, StrengthOrdered
  <2> HIDE DEF n
  <2>3. n(Levels[i]) <= n(chosen[2])
    <3>1. /\ Levels[1] = "Low" /\ Levels[2] = "Standard" /\ Levels[3] = "High"
          /\ Levels[4] = "VeryHigh"
      BY DEF Levels
    <3>2. /\ n("Low") \in Nat /\ n("Standard") \in Nat /\ n("High") \in Nat
          /\ n("VeryHigh") \in Nat
      BY <2>2 DEF LevelNames
    <3>3. CASE chosen[2] = "Low"
      BY <1>2, <3>1, <3>2, <3>3, LevelRanks
    <3>4. CASE chosen[2] = "Standard"
      <4>1. i \in {1, 2}
        BY <1>2, <3>4, LevelRanks
      <4> QED
        BY <2>2, <3>1, <3>2, <3>4, <4>1
    <3>5. CASE chosen[2] = "High"
      <4>1. i \in {1, 2, 3}
        BY <1>2, <3>5, LevelRanks
      <4> QED
        BY <2>2, <3>1, <3>2, <3>5, <4>1
    <3>6. CASE chosen[2] = "VeryHigh"
      <4>1. i \in {1, 2, 3, 4}
        BY <1>2, <3>6, LevelRanks
      <4> QED
        BY <2>2, <3>1, <3>2, <3>6, <4>1
    <3> QED
      BY <1>1, <3>3, <3>4, <3>5, <3>6 DEF LevelNames
  <2> QED
    BY <2>1, <2>3 DEF n
<1>3. ASSUME chosen[1] \in MemoryHard
      PROVE  Derivation(params) = Derivation(Parameters(chosen[1], chosen[2]))
  <2> DEFINE q == Parameters(chosen[1], chosen[2])
  <2>1. q.function = params.function /\ q.iterations = params.iterations
        /\ q.key = params.key
    BY <1>1, <1>3, ParametersOf DEF KeyInv
  <2> HIDE DEF q
  <2>2. Derivation(params) = Derivation(q)
    BY <2>1 DEF Derivation
  <2> QED
    BY <2>2 DEF q
<1> QED
  BY <1>2, <1>3 DEF StrengthFollowsLevel

LEMMA KeyHolds == KeySpec => []KeyInv
<1>1. KeyInit => KeyInv
  <2> SUFFICES ASSUME KeyInit PROVE KeyInv
    OBVIOUS
  <2>1. chosen \in KdfFunctions \X LevelNames /\ params = Parameters(chosen[1], chosen[2])
        /\ tunings = 0
    BY LevelRanks DEF KeyInit
  <2>2. chosen[1] \in KdfFunctions /\ chosen[2] \in LevelNames
    BY <2>1
  <2> QED
    BY <2>1, <2>2, ParametersOf DEF KeyInv
<1> QED
  BY <1>1, KeyStep, PTL DEF KeySpec

\* A key is as strong as the level asked for, as far as levels go, and tuning a
\* memory-hard function never changes what is derived (key_derivation.rs:233-345).
THEOREM StrengthStays == KeySpec => []StrengthFollowsLevel
BY KeyHolds, KeyInvGives, PTL

-----------------------------------------------------------------------------
(* SealedStore: what opens is what was written, whatever became of the file.    *)

WrittenData == Encrypted(written.content, KeyOf(written.by, written.salt),
                         written.by.algorithm)
Nonces == {"own", "other", "short", "undecodable"}
DataRecords == [algorithm: Algorithms, nonce: Nonces,
                ciphertext: {Damaged, WrittenData.ciphertext}]
SealedRecords == [version: {2, 3}, algorithm: Algorithms,
                  iterations: IterationChoices, salt: Salts, data: DataRecords]

\* A ciphertext that is not damaged is the one written, and whatever was not altered
\* still says what was written with it.
SealInv ==
  /\ written.by \in Providers /\ written.salt \in Salts
  /\ sealed \in SealedRecords
  /\ "nonce" \notin altered => sealed.data.nonce = "own"
  /\ altered = {} =>
       /\ sealed.version = 3 /\ sealed.algorithm = written.by.algorithm
       /\ sealed.iterations = written.by.iterations /\ sealed.salt = written.salt
       /\ sealed.data = WrittenData

LEMMA ProviderFields ==
  ASSUME NEW p \in Providers
  PROVE  p.algorithm \in Algorithms /\ p.iterations \in IterationChoices
BY DEF Providers

LEMMA SaveStoreInv ==
  ASSUME NEW p \in Providers, NEW c, NEW s \in Salts, SaveStore(p, c, s)
  PROVE  SealInv'
<1>1. /\ written' = [by |-> p, content |-> c, salt |-> s] /\ altered' = {}
      /\ sealed' = [version |-> 3, algorithm |-> p.algorithm,
                    iterations |-> p.iterations, salt |-> s,
                    data |-> Encrypted(c, KeyOf(p, s), p.algorithm)]
  BY DEF SaveStore
<1>2. written'.by = p /\ written'.content = c /\ written'.salt = s
  BY <1>1
<1>3. WrittenData' = Encrypted(c, KeyOf(p, s), p.algorithm)
  BY <1>2 DEF WrittenData, Encrypted, KeyOf
<1>4. WrittenData'.nonce = "own" /\ WrittenData' \in DataRecords'
  BY <1>3, ProviderFields DEF DataRecords, Encrypted, Nonces, Algorithms, Damaged
<1>5. sealed' \in SealedRecords'
  BY <1>1, <1>3, <1>4, ProviderFields DEF SealedRecords, IterationChoices, Algorithms
<1>6. sealed'.data = WrittenData'
  BY <1>1, <1>3
<1> QED
  BY <1>1, <1>2, <1>4, <1>5, <1>6 DEF SealInv

LEMMA AlterInv ==
  ASSUME SealInv, NEW field \in Fields, Alter(field)
  PROVE  SealInv'
<1>1. altered' # {} /\ altered' = altered \cup {field} /\ written' = written
  BY DEF Alter
<1>2. SealedRecords' = SealedRecords
  BY <1>1 DEF SealedRecords, DataRecords, WrittenData, Encrypted, KeyOf, Damaged,
              Algorithms, Nonces, IterationChoices
<1>3. /\ sealed \in [version: {2, 3}, algorithm: Algorithms, iterations: IterationChoices,
                     salt: Salts, data: DataRecords]
      /\ sealed.data \in DataRecords /\ "nonce" \notin altered => sealed.data.nonce = "own"
  BY DEF SealInv, SealedRecords
<1>4. sealed' \in SealedRecords /\ (field # "nonce" => sealed'.data.nonce = sealed.data.nonce)
  <2>1. CASE field = "version"
    <3>1. sealed' = [sealed EXCEPT !.version = 2]
      BY <2>1 DEF Alter
    <3> QED
      BY <1>3, <3>1 DEF SealedRecords
  <2>2. CASE field = "iterations"
    <3>1. PICK n \in IterationChoices : sealed' = [sealed EXCEPT !.iterations = n]
      BY <2>2 DEF Alter
    <3> QED
      BY <1>3, <3>1 DEF SealedRecords
  <2>3. CASE field = "salt"
    <3>1. PICK s \in Salts : sealed' = [sealed EXCEPT !.salt = s]
      BY <2>3 DEF Alter
    <3> QED
      BY <1>3, <3>1 DEF SealedRecords
  <2>4. CASE field = "algorithm"
    <3>1. PICK a \in Algorithms : sealed' = [sealed EXCEPT !.algorithm = a]
      BY <2>4 DEF Alter
    <3> QED
      BY <1>3, <3>1 DEF SealedRecords
  <2>5. ASSUME NEW d \in DataRecords, sealed' = [sealed EXCEPT !.data = d],
               field # "nonce" => d.nonce = sealed.data.nonce
        PROVE  <1>4
    BY <1>3, <2>5 DEF SealedRecords
  <2>6. CASE field = "inner algorithm"
    <3>1. PICK a \in Algorithms : sealed' = [sealed EXCEPT !.data.algorithm = a]
      BY <2>6 DEF Alter
    <3> DEFINE d == [sealed.data EXCEPT !.algorithm = a]
    <3>2. d \in DataRecords /\ d.nonce = sealed.data.nonce
      BY <1>3, <3>1 DEF DataRecords
    <3>3. sealed' = [sealed EXCEPT !.data = d]
      BY <1>3, <3>1
    <3> HIDE DEF d
    <3> QED
      BY <2>5, <3>2, <3>3
  <2>7. CASE field = "nonce"
    <3>1. PICK n \in {"other", "short", "undecodable"} :
            sealed' = [sealed EXCEPT !.data.nonce = n]
      BY <2>7 DEF Alter
    <3> DEFINE d == [sealed.data EXCEPT !.nonce = n]
    <3>2. d \in DataRecords
      BY <1>3, <3>1 DEF DataRecords, Nonces
    <3>3. sealed' = [sealed EXCEPT !.data = d]
      BY <1>3, <3>1
    <3> HIDE DEF d
    <3> QED
      BY <2>5, <2>7, <3>2, <3>3
  <2>8. CASE field = "ciphertext"
    <3>1. sealed' = [sealed EXCEPT !.data.ciphertext = Damaged]
      BY <2>8 DEF Alter
    <3> DEFINE d == [sealed.data EXCEPT !.ciphertext = Damaged]
    <3>2. d \in DataRecords /\ d.nonce = sealed.data.nonce
      BY <1>3, <3>1 DEF DataRecords
    <3>3. sealed' = [sealed EXCEPT !.data = d]
      BY <1>3, <3>1
    <3> HIDE DEF d
    <3> QED
      BY <2>5, <3>2, <3>3
  <2> QED
    BY <2>1, <2>2, <2>3, <2>4, <2>6, <2>7, <2>8 DEF Fields
<1> QED
  BY <1>1, <1>2, <1>3, <1>4 DEF SealInv

\* What decrypting needs and gives.
LEMMA DecryptSays ==
  ASSUME NEW data \in DataRecords, NEW key, NEW a \in Algorithms
  PROVE  /\ Decrypt(data, key, a).is = "open" <=>
              /\ data.algorithm = a /\ data.nonce \in {"own", "other"}
              /\ data.nonce = "own" /\ data.ciphertext # Damaged
              /\ data.ciphertext.key = key /\ data.ciphertext.algorithm = a
         /\ Decrypt(data, key, a).is = "open" =>
              Decrypt(data, key, a).content = data.ciphertext.of
         /\ Decrypt(data, key, a).is = "panic" => data.nonce = "short"
BY DEF Decrypt, DataRecords, Nonces

LEMMA SealInvGives == SealInv => SealHolds
<1> SUFFICES ASSUME SealInv, NEW p \in Providers
             PROVE  /\ Open(p).is = "open" =>
                         Open(p).content = written.content /\ p = written.by
                    /\ Open(p).is = "panic" => "nonce" \in altered
                    /\ altered = {} /\ p = written.by =>
                         (Open(p).is = "open" <=> /\ written.salt \notin PoorSalts
                                                  /\ written.by.iterations >= LeastIterations)
  BY DEF SealHolds
<1> DEFINE key == KeyOf(p, sealed.salt)
           tried == Decrypt(sealed.data, key, sealed.algorithm)
           let == /\ sealed.version = 3 /\ ~(sealed.iterations < LeastIterations)
                  /\ sealed.salt \notin PoorSalts
<1>1. Open(p) = IF let THEN tried ELSE [is |-> "refused"]
  BY DEF Open
<1>2. sealed.data \in DataRecords /\ sealed.algorithm \in Algorithms
      /\ sealed.iterations \in Nat
  BY DEF SealInv, SealedRecords, IterationChoices
<1>3. /\ tried.is = "open" <=>
           /\ sealed.data.algorithm = sealed.algorithm
           /\ sealed.data.nonce \in {"own", "other"}
           /\ sealed.data.nonce = "own" /\ sealed.data.ciphertext # Damaged
           /\ sealed.data.ciphertext.key = key
           /\ sealed.data.ciphertext.algorithm = sealed.algorithm
      /\ tried.is = "open" => tried.content = sealed.data.ciphertext.of
      /\ tried.is = "panic" => sealed.data.nonce = "short"
  BY <1>2, DecryptSays
<1>4. /\ sealed.data.ciphertext \in {Damaged, WrittenData.ciphertext}
      /\ WrittenData.ciphertext.of = written.content
      /\ WrittenData.ciphertext.key = KeyOf(written.by, written.salt)
      /\ WrittenData.ciphertext.algorithm = written.by.algorithm
      /\ WrittenData.nonce = "own" /\ WrittenData.algorithm = written.by.algorithm
  BY <1>2 DEF DataRecords, WrittenData, Encrypted
<1>5. Damaged.algorithm \notin Algorithms /\ written.by.algorithm \in Algorithms
  BY ProviderFields DEF Damaged, Algorithms, SealInv
<1> HIDE DEF tried
<1>6. ASSUME Open(p).is = "open" PROVE Open(p).content = written.content /\ p = written.by
  <2>1. let /\ tried.is = "open" /\ Open(p) = tried
    BY <1>1, <1>6
  <2>2. KeyOf(p, sealed.salt) = KeyOf(written.by, written.salt)
    BY <1>3, <1>4, <2>1
  <2>3. p = written.by
    BY <2>2 DEF KeyOf
  <2> QED
    BY <1>3, <1>4, <2>1, <2>3
<1>7. ASSUME Open(p).is = "panic" PROVE "nonce" \in altered
  <2>1. sealed.data.nonce = "short"
    BY <1>1, <1>3, <1>7
  <2> QED
    BY <2>1 DEF SealInv
<1>8. ASSUME altered = {}, p = written.by
      PROVE  Open(p).is = "open" <=> /\ written.salt \notin PoorSalts
                                     /\ written.by.iterations >= LeastIterations
  <2>1. /\ sealed.version = 3 /\ sealed.algorithm = written.by.algorithm
        /\ sealed.iterations = written.by.iterations /\ sealed.salt = written.salt
        /\ sealed.data = WrittenData
    BY <1>8 DEF SealInv
  <2>2. tried.is = "open"
    <3>1. WrittenData.ciphertext # Damaged
      BY <1>4, <1>5
    <3> QED
      BY <1>3, <1>4, <1>8, <2>1, <3>1
  <2>3. let <=> written.salt \notin PoorSalts /\ written.by.iterations >= LeastIterations
    BY <1>2, <2>1 DEF LeastIterations
  <2>4. Open(p).is = "open" <=> let
    BY <1>1, <2>2
  <2> QED
    BY <2>3, <2>4
<1> QED
  BY <1>6, <1>7, <1>8

LEMMA SealedHolds == SealedSpec => []SealInv
<1>1. SealedInit => SealInv
  <2> SUFFICES ASSUME SealedInit PROVE SealInv
    OBVIOUS
  <2>1. PICK p \in Providers, c \in SealedMaps, s \in Salts :
          /\ sealed = [version |-> 3, algorithm |-> p.algorithm,
                       iterations |-> p.iterations, salt |-> s,
                       data |-> Encrypted(c, KeyOf(p, s), p.algorithm)]
          /\ written = [by |-> p, content |-> c, salt |-> s]
    BY DEF SealedInit
  <2>2. written.by = p /\ written.content = c /\ written.salt = s /\ altered = {}
    BY <2>1 DEF SealedInit
  <2>3. WrittenData = Encrypted(c, KeyOf(p, s), p.algorithm)
    BY <2>2 DEF WrittenData
  <2>4. WrittenData.nonce = "own" /\ WrittenData \in DataRecords
    BY <2>3, ProviderFields DEF DataRecords, Encrypted, Nonces, Algorithms
  <2>5. sealed \in SealedRecords /\ sealed.data = WrittenData
    BY <2>1, <2>3, <2>4, ProviderFields DEF SealedRecords, IterationChoices, Algorithms
  <2> QED
    BY <2>1, <2>2, <2>4, <2>5 DEF SealInv
<1>2. SealInv /\ [SealedNext]_SealedVars => SealInv'
  <2> SUFFICES ASSUME SealInv, [SealedNext]_SealedVars PROVE SealInv'
    OBVIOUS
  <2>1. CASE UNCHANGED SealedVars
    BY <2>1 DEF SealedVars, SealInv, SealedRecords, DataRecords, WrittenData, Encrypted,
                KeyOf, Damaged, Algorithms, Nonces, IterationChoices, Providers
  <2> QED
    BY <2>1, SaveStoreInv, AlterInv DEF SealedNext
<1> QED
  BY <1>1, <1>2, PTL DEF SealedSpec

\* Whatever was altered on disk, what opens is what was written, for whom it was
\* written (file_provider.rs:271-350, encryption.rs:430-600).
THEOREM SealsHold == SealedSpec => []SealHolds
BY SealedHolds, SealInvGives, PTL

-----------------------------------------------------------------------------
(* CredentialStore: as long as updates run one by one.                          *)

StoreCalls == [at: FileSteps \cup {"keyring", "done", "failed"}, id: CredentialIds,
          op: {"store", "delete"}, by: KeyConfigs, filed: BOOLEAN,
          map: [CredentialIds -> Nat], fd: Nat, value: Nat]

FileReads(c) == inode[named.main].kind = "store" /\ inode[named.main].by = c

\* What a call knows is so: from its load on the file is one of its own configuration
\* or missing, and what it is to write is what was wanted with its own credential in.
CallFits(r) ==
  r # NotCalling =>
    /\ r \in StoreCalls /\ (r.op = "store" => r.value > 0)
    /\ r.at \in FileSteps => ~r.filed /\ writesMade > 0
    /\ r.at \in {"load", "open"} => r.fd = 0
    /\ r.at \in {"open", "write", "rename"} =>
         /\ r.map = [wanted EXCEPT ![r.id] = r.value]
         /\ named.main # 0 => FileReads(r.by)
    /\ r.at \in {"write", "rename"} => r.fd = named.tmp /\ named.tmp # 0
    /\ r.at = "rename" => \E poor : inode[named.tmp] = Store(r.by, r.map, poor)
    /\ r.filed => named.main # 0 /\ FileReads(r.by)

FileFits ==
  /\ writesMade \in 0..MaxStored /\ wanted \in [CredentialIds -> Nat]
  /\ inode = [i \in Inodes |-> inode[i]]
  /\ named \in [main: Inodes \cup {0}, tmp: Inodes \cup {0}]
  /\ named.main # 0 => /\ named.main # named.tmp
                       /\ \/ inode[named.main] = Legacy
                          \/ inode[named.main].kind = "store"
                             /\ inode[named.main].map = wanted
  /\ named.main = 0 => wanted = Empty

OneUpdates == \A t, u \in CredTasks : Updating(t) /\ Updating(u) => t = u

CredentialInv ==
  ~mixed => /\ FileFits /\ OneUpdates
            /\ DOMAIN call = CredTasks /\ call = [t \in CredTasks |-> call[t]]
            /\ \A t \in CredTasks : CallFits(call[t])

LEMMA IdleRecord == NotCalling.at = "idle" /\ NotCalling \notin StoreCalls
BY DEF NotCalling, StoreCalls, FileSteps

LEMMA CredentialInitInv == CredentialInit => CredentialInv
<1> SUFFICES ASSUME CredentialInit PROVE CredentialInv
  OBVIOUS
<1>1. PICK old \in {TornFile, Legacy} :
        inode = [i \in Inodes |-> IF i = 1 THEN old ELSE TornFile]
  BY DEF CredentialInit
<1>2. 1 \in Inodes /\ inode[1] = old
  BY <1>1, CredentialAssumption DEF Inodes
<1>3. named = [main |-> IF old = Legacy THEN 1 ELSE 0, tmp |-> 0]
  BY <1>2 DEF CredentialInit
<1>4. FileFits
  BY <1>1, <1>2, <1>3, CredentialAssumption DEF FileFits, CredentialInit, Empty, Nothing
<1>5. call = [t \in CredTasks |-> NotCalling]
  BY DEF CredentialInit
<1> QED
  BY <1>4, <1>5, IdleRecord DEF CredentialInv, OneUpdates, Updating, CallFits, FileSteps

\* A step that changes one call, and of the rest only what the calls do not look at.
LEMMA CallStep ==
  ASSUME CredentialInv, ~mixed, NEW t \in CredTasks, NEW r, CallFits(r),
         call' = [call EXCEPT ![t] = r], UNCHANGED <<inode, named, wanted, writesMade>>,
         r.at \in FileSteps => Updating(t)
  PROVE  CredentialInv'
<1>1. /\ FileFits /\ OneUpdates /\ call = [u \in CredTasks |-> call[u]]
      /\ \A u \in CredTasks : CallFits(call[u])
  BY DEF CredentialInv
<1>2. \A u \in CredTasks : call'[u] = IF u = t THEN r ELSE call[u]
  BY <1>1
<1>3. DOMAIN call' = CredTasks /\ call' = [u \in CredTasks |-> call'[u]]
  BY <1>1
<1>4. FileFits'
  BY <1>1 DEF FileFits, Empty, Nothing, Legacy, Inodes
<1>5. OneUpdates'
  BY <1>1, <1>2 DEF OneUpdates, Updating
<1>6. ASSUME NEW u \in CredTasks PROVE CallFits(call[u])'
  <2>1. CallFits(call'[u])
    BY <1>1, <1>2
  <2> QED
    BY <2>1 DEF CallFits, FileReads, StoreCalls, FileSteps, NotCalling, Store
<1> QED
  BY <1>3, <1>4, <1>5, <1>6 DEF CredentialInv

LEMMA BeginInv ==
  ASSUME CredentialInv, NEW t \in CredTasks, NEW id \in CredentialIds,
         NEW what \in {"store", "delete"}, NEW c \in KeyConfigs, Begin(t, id, what, c)
  PROVE  CredentialInv'
<1> SUFFICES ASSUME ~mixed' PROVE CredentialInv'
  BY DEF CredentialInv
<1> DEFINE r == [at |-> "load", id |-> id, op |-> what, by |-> c, filed |-> FALSE,
                 map |-> Empty, fd |-> 0,
                 value |-> IF what = "store" THEN writesMade' ELSE Nothing]
<1>1. /\ ~mixed /\ \A u \in CredTasks : ~Updating(u)
      /\ writesMade < MaxStored /\ writesMade' = writesMade + 1
      /\ call' = [call EXCEPT ![t] = r] /\ UNCHANGED <<inode, named, wanted>>
  BY DEF Begin
<1>2. /\ FileFits /\ call = [u \in CredTasks |-> call[u]]
      /\ \A u \in CredTasks : CallFits(call[u])
  BY <1>1 DEF CredentialInv
<1>3. writesMade \in Nat /\ writesMade' \in 0..MaxStored /\ writesMade' > 0
  BY <1>1, <1>2, CredentialAssumption DEF FileFits
<1>4. r \in StoreCalls /\ r.at = "load" /\ r.fd = 0 /\ r.filed = FALSE
      /\ (r.op = "store" => r.value > 0)
  BY <1>3 DEF StoreCalls, FileSteps, Empty, Nothing
<1> HIDE DEF r
<1>5. \A u \in CredTasks : call'[u] = IF u = t THEN r ELSE call[u]
  BY <1>1, <1>2
<1>6. DOMAIN call' = CredTasks /\ call' = [u \in CredTasks |-> call'[u]]
  BY <1>1, <1>2
<1>7. FileFits'
  BY <1>1, <1>2, <1>3 DEF FileFits, Empty, Nothing, Legacy, Inodes
<1>8. OneUpdates'
  BY <1>1, <1>5 DEF OneUpdates, Updating
<1>9. ASSUME NEW u \in CredTasks PROVE CallFits(call[u])'
  <2>1. CASE u = t
    BY <1>3, <1>4, <1>5, <2>1 DEF CallFits, StoreCalls, FileSteps
  <2>2. CASE u # t
    <3>1. call'[u] = call[u] /\ call[u].at \notin FileSteps /\ CallFits(call[u])
      BY <1>1, <1>2, <1>5, <2>2 DEF Updating
    <3> QED
      BY <1>1, <3>1 DEF CallFits, FileReads, StoreCalls, FileSteps, NotCalling, Store
  <2> QED
    BY <2>1, <2>2
<1> QED
  BY <1>6, <1>7, <1>8, <1>9 DEF CredentialInv

LEMMA LoadStoreInv ==
  ASSUME CredentialInv, NEW t \in CredTasks, LoadStore(t)
  PROVE  CredentialInv'
<1> SUFFICES ASSUME ~mixed PROVE CredentialInv'
  BY DEF CredentialInv, LoadStore
<1> DEFINE m == [Filed EXCEPT ![call[t].id] = call[t].value]
           r == [call[t] EXCEPT !.at = "open", !.map = m]
<1>1. /\ FileFits /\ call = [u \in CredTasks |-> call[u]] /\ CallFits(call[t])
  BY DEF CredentialInv
<1>2. /\ call[t].at = "load" /\ IsReadable(call[t].by)
      /\ UNCHANGED <<inode, named, wanted, writesMade>>
  BY DEF LoadStore
<1>3. call' = [call EXCEPT ![t] = r]
  BY <1>1 DEF LoadStore
<1>4. call[t] # NotCalling /\ call[t] \in StoreCalls
  BY <1>1, <1>2, IdleRecord DEF CallFits
<1>5. Filed = wanted /\ (named.main # 0 => FileReads(call[t].by))
  BY <1>1, <1>2 DEF Filed, FileFits, IsReadable, FileIs, FileReads, Legacy
<1>6. m = [wanted EXCEPT ![call[t].id] = call[t].value] /\ m \in [CredentialIds -> Nat]
  BY <1>1, <1>4, <1>5 DEF FileFits, StoreCalls
<1> HIDE DEF m
<1>7. /\ r \in StoreCalls /\ r.at = "open" /\ r.map = m /\ r.id = call[t].id
      /\ r.value = call[t].value /\ r.by = call[t].by /\ r.fd = call[t].fd
      /\ r.op = call[t].op /\ r.filed = call[t].filed
  BY <1>4, <1>6 DEF StoreCalls, FileSteps
<1> HIDE DEF r
<1>8. CallFits(r)
  BY <1>1, <1>2, <1>4, <1>5, <1>6, <1>7 DEF CallFits, FileSteps
<1>9. Updating(t)
  BY <1>2 DEF Updating, FileSteps
<1> QED
  BY <1>2, <1>3, <1>8, <1>9, CallStep

LEMMA CallEnds ==
  ASSUME CredentialInv, NEW t \in CredTasks, FileFails(t) \/ AskKeyring(t) \/ EndCall(t)
  PROVE  CredentialInv'
<1> SUFFICES ASSUME ~mixed PROVE CredentialInv'
  BY DEF CredentialInv, FileFails, AskKeyring, EndCall
<1>1. CallFits(call[t]) /\ UNCHANGED <<inode, named, wanted, writesMade>>
      /\ call = [u \in CredTasks |-> call[u]]
  BY DEF CredentialInv, FileFails, AskKeyring, EndCall
<1>2. ASSUME NEW a \in {"keyring", "done", "failed"}, call[t].at # "idle",
             call' = [call EXCEPT ![t].at = a]
      PROVE  CredentialInv'
  <2> DEFINE r == [call[t] EXCEPT !.at = a]
  <2>1. call[t] # NotCalling /\ call[t] \in StoreCalls
    BY <1>1, <1>2, IdleRecord DEF CallFits
  <2>2. /\ r \in StoreCalls /\ r.at = a /\ r.by = call[t].by /\ r.op = call[t].op
        /\ r.filed = call[t].filed /\ r.value = call[t].value
    BY <2>1 DEF StoreCalls
  <2>3. call' = [call EXCEPT ![t] = r]
    BY <1>1, <1>2
  <2> HIDE DEF r
  <2>4. CallFits(r) /\ r.at \notin FileSteps
    BY <1>1, <2>1, <2>2 DEF CallFits, FileSteps
  <2> QED
    BY <1>1, <2>3, <2>4, CallStep
<1>3. CASE FileFails(t)
  BY <1>2, <1>3 DEF FileFails, Updating, FileSteps
<1>4. CASE AskKeyring(t)
  <2> DEFINE a == IF keyringUp \/ call[t].filed THEN "done" ELSE "failed"
  <2>1. a \in {"keyring", "done", "failed"} /\ call[t].at # "idle"
        /\ call' = [call EXCEPT ![t].at = a]
    BY <1>4 DEF AskKeyring
  <2> QED
    BY <1>2, <2>1
<1>5. CASE EndCall(t)
  <2>1. call' = [call EXCEPT ![t] = NotCalling]
    BY <1>5 DEF EndCall
  <2>2. CallFits(NotCalling) /\ NotCalling.at \notin FileSteps
    BY IdleRecord DEF CallFits, FileSteps
  <2> QED
    BY <1>1, <2>1, <2>2, CallStep
<1> QED
  BY <1>3, <1>4, <1>5

\* A step of an update that changes the files.
LEMMA UpdateStep ==
  ASSUME CredentialInv, ~mixed, NEW t \in CredTasks, Updating(t), NEW r,
         call' = [call EXCEPT ![t] = r], FileFits', CallFits(r)',
         \A c : named.main # 0 /\ FileReads(c) => named'.main # 0 /\ FileReads(c)'
  PROVE  CredentialInv'
<1>1. /\ OneUpdates /\ call = [u \in CredTasks |-> call[u]]
      /\ \A u \in CredTasks : CallFits(call[u])
  BY DEF CredentialInv
<1>2. \A u \in CredTasks : call'[u] = IF u = t THEN r ELSE call[u]
  BY <1>1
<1>3. DOMAIN call' = CredTasks /\ call' = [u \in CredTasks |-> call'[u]]
  BY <1>1
<1>4. \A u \in CredTasks : u # t => ~Updating(u)
  BY <1>1 DEF OneUpdates
<1>5. OneUpdates'
  BY <1>2, <1>4 DEF OneUpdates, Updating
<1>6. ASSUME NEW u \in CredTasks PROVE CallFits(call[u])'
  <2>1. CASE u = t
    <3>1. call'[u] = r
      BY <1>2, <2>1
    <3> QED
      BY <3>1 DEF CallFits
  <2>2. CASE u # t
    <3>1. call'[u] = call[u] /\ call[u].at \notin FileSteps /\ CallFits(call[u])
      BY <1>1, <1>2, <1>4, <2>2 DEF Updating
    <3>2. call[u] # NotCalling /\ call[u].filed => named'.main # 0 /\ FileReads(call[u].by)'
      BY <3>1 DEF CallFits
    <3> QED
      BY <3>1, <3>2 DEF CallFits, FileReads, StoreCalls, FileSteps, NotCalling, Store
  <2> QED
    BY <2>1, <2>2
<1> QED
  BY <1>3, <1>5, <1>6 DEF CredentialInv

\* What an update under way is.
LEMMA UpdateRecord ==
  ASSUME CredentialInv, ~mixed, NEW t \in CredTasks, call[t].at \in FileSteps
  PROVE  /\ FileFits /\ Updating(t) /\ call[t] \in StoreCalls /\ CallFits(call[t])
         /\ call[t] # NotCalling /\ call = [u \in CredTasks |-> call[u]]
         /\ \A u \in CredTasks : Updating(u) => u = t
         /\ MaxStored > 0 /\ ~call[t].filed
<1>1. /\ FileFits /\ CallFits(call[t]) /\ call = [u \in CredTasks |-> call[u]]
      /\ OneUpdates
  BY DEF CredentialInv
<1>2. call[t] # NotCalling
  BY IdleRecord DEF FileSteps
<1>3. Updating(t)
  BY DEF Updating
<1>4. writesMade > 0 /\ ~call[t].filed /\ call[t] \in StoreCalls
  BY <1>1, <1>2 DEF CallFits
<1>5. MaxStored > 0
  BY <1>1, <1>4, CredentialAssumption DEF FileFits
<1> QED
  BY <1>1, <1>2, <1>3, <1>4, <1>5 DEF OneUpdates

LEMMA OpenTemporaryInv ==
  ASSUME CredentialInv, NEW t \in CredTasks, OpenTemporary(t)
  PROVE  CredentialInv'
<1> SUFFICES ASSUME ~mixed PROVE CredentialInv'
  BY DEF CredentialInv, OpenTemporary
<1>1. call[t].at = "open" /\ UNCHANGED <<writesMade, wanted>>
  BY DEF OpenTemporary
<1>2. /\ FileFits /\ Updating(t) /\ call[t] \in StoreCalls /\ CallFits(call[t])
      /\ call[t] # NotCalling /\ call = [u \in CredTasks |-> call[u]]
      /\ \A u \in CredTasks : Updating(u) => u = t
      /\ MaxStored > 0 /\ ~call[t].filed
  BY <1>1, UpdateRecord DEF FileSteps
<1> DEFINE free == {i \in Inodes : i \notin {named.main, named.tmp}
                                   /\ \A u \in CredTasks : Updating(u) => call[u].fd # i}
<1> DEFINE picked == IF named.tmp # 0 THEN named.tmp ELSE CHOOSE i \in free : TRUE
<1>a. /\ inode' = [inode EXCEPT ![picked] = TornFile]
      /\ named' = [named EXCEPT !.tmp = picked]
      /\ call' = [call EXCEPT ![t].at = "write", ![t].fd = picked]
  BY DEF OpenTemporary
<1>b. PICK fd : fd = picked
  OBVIOUS
<1> HIDE DEF free, picked
<1>3. /\ inode' = [inode EXCEPT ![fd] = TornFile]
      /\ named' = [named EXCEPT !.tmp = fd]
      /\ call' = [call EXCEPT ![t].at = "write", ![t].fd = fd]
  BY <1>a, <1>b
<1>c. fd = IF named.tmp # 0 THEN named.tmp ELSE CHOOSE i \in free : TRUE
  BY <1>b DEF picked
<1>4. named.main \in Inodes \cup {0} /\ named.tmp \in Inodes \cup {0}
  BY <1>2 DEF FileFits
<1>5. fd \in Inodes /\ fd # named.main
  <2>1. CASE named.tmp # 0
    BY <1>2, <1>c, <1>4, <2>1 DEF FileFits, Inodes
  <2>2. CASE named.tmp = 0
    <3>1. call[t].fd = 0
      BY <1>1, <1>2 DEF CallFits
    <3>2. 1 \in Inodes /\ 2 \in Inodes /\ 0 \notin Inodes
      BY <1>2, CredentialAssumption DEF Inodes
    <3>3. PICK i \in Inodes : i # named.main /\ i # named.tmp /\ i # call[t].fd
      BY <2>2, <3>1, <3>2
    <3>4. i \in free
      BY <1>2, <3>3 DEF free
    <3>5. fd \in free
      BY <1>c, <2>2, <3>4
    <3> QED
      BY <3>5 DEF free
  <2> QED
    BY <2>1, <2>2
<1>6. fd # 0 /\ fd \in Nat
  BY <1>5, CredentialAssumption DEF Inodes
<1>7. PICK r : r = [call[t] EXCEPT !.at = "write", !.fd = fd]
  OBVIOUS
<1>8. call' = [call EXCEPT ![t] = r]
  BY <1>2, <1>3, <1>7
<1>9. /\ r \in StoreCalls /\ r.at = "write" /\ r.fd = fd /\ r.id = call[t].id
      /\ r.value = call[t].value /\ r.by = call[t].by /\ r.map = call[t].map
      /\ r.op = call[t].op /\ r.filed = call[t].filed
  BY <1>2, <1>6, <1>7 DEF StoreCalls, FileSteps
<1>10. named'.main = named.main /\ named'.tmp = fd
       /\ named' \in [main: Inodes \cup {0}, tmp: Inodes \cup {0}]
  BY <1>2, <1>3, <1>5 DEF FileFits
<1>11. inode' = [i \in Inodes |-> inode'[i]] /\ (named.main # 0 => inode'[named.main] = inode[named.main])
  BY <1>2, <1>3, <1>4, <1>5 DEF FileFits
<1>12. FileFits'
  BY <1>1, <1>2, <1>5, <1>10, <1>11 DEF FileFits, Inodes, Empty, Nothing, Legacy
<1>13. \A c : named.main # 0 /\ FileReads(c) => named'.main # 0 /\ FileReads(c)'
  BY <1>10, <1>11 DEF FileReads
<1>14. CallFits(r)'
  <2>1. /\ (r.op = "store" => r.value > 0) /\ ~r.filed /\ writesMade' > 0
        /\ r.map = [wanted' EXCEPT ![r.id] = r.value]
        /\ named'.main # 0 => FileReads(r.by)'
    BY <1>1, <1>2, <1>9, <1>10, <1>11 DEF CallFits, FileSteps, FileReads
  <2>2. r.fd = named'.tmp /\ named'.tmp # 0 /\ r \in StoreCalls' /\ r.at = "write"
    BY <1>6, <1>9, <1>10 DEF StoreCalls, FileSteps
  <2> QED
    BY <2>1, <2>2 DEF CallFits
<1> QED
  BY <1>2, <1>8, <1>12, <1>13, <1>14, UpdateStep

LEMMA WriteTemporaryInv ==
  ASSUME CredentialInv, NEW t \in CredTasks, WriteTemporary(t)
  PROVE  CredentialInv'
<1> SUFFICES ASSUME ~mixed PROVE CredentialInv'
  BY DEF CredentialInv, WriteTemporary
<1>1. call[t].at = "write" /\ UNCHANGED <<named, writesMade, wanted>>
  BY DEF WriteTemporary
<1>2. /\ FileFits /\ Updating(t) /\ call[t] \in StoreCalls /\ CallFits(call[t])
      /\ call[t] # NotCalling /\ call = [u \in CredTasks |-> call[u]] /\ ~call[t].filed
  BY <1>1, UpdateRecord DEF FileSteps
<1>3. PICK poor \in BOOLEAN :
        inode' = [inode EXCEPT ![call[t].fd] = Store(call[t].by, call[t].map, poor)]
  BY DEF WriteTemporary
<1>4. call[t].fd = named.tmp /\ named.tmp # 0 /\ named.tmp \in Inodes /\ writesMade > 0
  BY <1>1, <1>2 DEF CallFits, FileFits, FileSteps
<1>5. PICK r : r = [call[t] EXCEPT !.at = "rename"]
  OBVIOUS
<1>6. call' = [call EXCEPT ![t] = r]
  BY <1>2, <1>5 DEF WriteTemporary
<1>7. /\ r \in StoreCalls /\ r.at = "rename" /\ r.fd = call[t].fd /\ r.id = call[t].id
      /\ r.value = call[t].value /\ r.by = call[t].by /\ r.map = call[t].map
      /\ r.op = call[t].op /\ r.filed = call[t].filed
  BY <1>2, <1>5 DEF StoreCalls, FileSteps
<1>8. inode' = [i \in Inodes |-> inode'[i]] /\ inode'[named.tmp] = Store(r.by, r.map, poor)
      /\ (named.main # 0 => inode'[named.main] = inode[named.main])
  <2>1. named.main # 0 => named.main # named.tmp /\ named.main \in Inodes
    BY <1>2 DEF FileFits
  <2> QED
    BY <1>2, <1>3, <1>4, <1>7, <2>1 DEF FileFits
<1>9. FileFits'
  BY <1>1, <1>2, <1>8 DEF FileFits, Inodes, Empty, Nothing, Legacy
<1>10. \A c : named.main # 0 /\ FileReads(c) => named'.main # 0 /\ FileReads(c)'
  BY <1>1, <1>8 DEF FileReads
<1>11. CallFits(r)'
  <2>1. /\ (r.op = "store" => r.value > 0) /\ ~r.filed /\ writesMade' > 0
        /\ r.map = [wanted' EXCEPT ![r.id] = r.value]
        /\ named'.main # 0 => FileReads(r.by)'
    BY <1>1, <1>2, <1>4, <1>7, <1>8 DEF CallFits, FileSteps, FileReads
  <2>2. /\ r.fd = named'.tmp /\ named'.tmp # 0 /\ r \in StoreCalls' /\ r.at = "rename"
        /\ inode'[named'.tmp] = Store(r.by, r.map, poor)
    BY <1>1, <1>4, <1>7, <1>8 DEF StoreCalls, FileSteps
  <2> QED
    BY <2>1, <2>2 DEF CallFits
<1> QED
  BY <1>2, <1>6, <1>9, <1>10, <1>11, UpdateStep

LEMMA RenameTemporaryInv ==
  ASSUME CredentialInv, NEW t \in CredTasks, RenameTemporary(t)
  PROVE  CredentialInv'
<1> SUFFICES ASSUME ~mixed PROVE CredentialInv'
  BY DEF CredentialInv, RenameTemporary
<1>1. /\ call[t].at = "rename" /\ named.tmp # 0 /\ UNCHANGED <<inode, writesMade>>
      /\ named' = [main |-> named.tmp, tmp |-> 0]
      /\ wanted' = [wanted EXCEPT ![call[t].id] = call[t].value]
  BY DEF RenameTemporary
<1>2. /\ FileFits /\ Updating(t) /\ call[t] \in StoreCalls /\ CallFits(call[t])
      /\ call[t] # NotCalling /\ call = [u \in CredTasks |-> call[u]]
  BY <1>1, UpdateRecord DEF FileSteps
<1>3. PICK poor : inode[named.tmp] = Store(call[t].by, call[t].map, poor)
  BY <1>1, <1>2 DEF CallFits
<1>4. inode[named.tmp].kind = "store" /\ inode[named.tmp].by = call[t].by
      /\ inode[named.tmp].map = call[t].map
  BY <1>3 DEF Store
<1>5. PICK a \in {"done", "keyring"} :
        call' = [call EXCEPT ![t].filed = TRUE, ![t].at = a]
  BY DEF RenameTemporary
<1>6. PICK r : r = [call[t] EXCEPT !.filed = TRUE, !.at = a]
  OBVIOUS
<1>7. call' = [call EXCEPT ![t] = r]
  BY <1>2, <1>5, <1>6
<1>8. /\ r \in StoreCalls /\ r.at = a /\ r.by = call[t].by /\ r.op = call[t].op
      /\ r.value = call[t].value
  BY <1>2, <1>6 DEF StoreCalls
<1>9. /\ call[t].map = wanted' /\ wanted' \in [CredentialIds -> Nat]
      /\ named.main # 0 => FileReads(call[t].by)
  BY <1>1, <1>2 DEF CallFits, FileFits, StoreCalls
<1>10. FileFits'
  <2>1. named'.main = named.tmp /\ named'.tmp = 0 /\ named.tmp \in Inodes
        /\ named' \in [main: Inodes \cup {0}, tmp: Inodes \cup {0}]
    BY <1>1, <1>2 DEF FileFits
  <2> QED
    BY <1>1, <1>2, <1>4, <1>9, <2>1 DEF FileFits, Inodes, Empty, Nothing, Legacy
<1>11. \A c : named.main # 0 /\ FileReads(c) => named'.main # 0 /\ FileReads(c)'
  BY <1>1, <1>4, <1>9 DEF FileReads
<1>12. CallFits(r)'
  <2>1. (r.op = "store" => r.value > 0) /\ r.at \notin FileSteps
    BY <1>2, <1>8 DEF CallFits, FileSteps
  <2>2. named'.main # 0 /\ FileReads(r.by)' /\ r \in StoreCalls'
    BY <1>1, <1>4, <1>8 DEF FileReads, StoreCalls, FileSteps
  <2> QED
    BY <2>1, <2>2 DEF CallFits, FileSteps
<1> QED
  BY <1>2, <1>7, <1>10, <1>11, <1>12, UpdateStep

LEMMA CredentialStep == CredentialInv /\ [CredentialNext]_CredentialVars => CredentialInv'
<1> SUFFICES ASSUME CredentialInv, [CredentialNext]_CredentialVars PROVE CredentialInv'
  OBVIOUS
<1>1. CASE KeyringChanges \/ UNCHANGED CredentialVars
  <2> SUFFICES ASSUME ~mixed PROVE CredentialInv'
    BY <1>1 DEF KeyringChanges, CredentialVars, CredentialInv
  <2>1. UNCHANGED <<inode, named, wanted, writesMade, call>>
    BY <1>1 DEF KeyringChanges, CredentialVars
  <2>2. FileFits' /\ OneUpdates'
    BY <2>1 DEF CredentialInv, FileFits, OneUpdates, Updating, FileSteps, Inodes, Empty,
                Nothing, Legacy
  <2>3. ASSUME NEW t \in CredTasks PROVE CallFits(call[t])'
    <3>1. CallFits(call[t]) /\ call'[t] = call[t]
      BY <2>1 DEF CredentialInv
    <3> QED
      BY <2>1, <3>1 DEF CallFits, FileReads, StoreCalls, FileSteps, NotCalling, Store
  <2> QED
    BY <2>1, <2>2, <2>3 DEF CredentialInv
<1> QED
  BY <1>1, BeginInv, LoadStoreInv, OpenTemporaryInv, WriteTemporaryInv,
     RenameTemporaryInv, CallEnds DEF CredentialNext

LEMMA CredentialInvGives == CredentialInv => UpdatesApartStand
<1> SUFFICES ASSUME CredentialInv, ~mixed
             PROVE  /\ ~FileIs("torn")
                    /\ ~FileIs("legacy") => Filed = wanted
                    /\ \A t \in CredTasks :
                         /\ call[t].at = "done" /\ call[t].op = "store" /\ call[t].filed
                         /\ call[t].value = wanted[call[t].id] /\ ~inode[named.main].poor
                         => LET there == Found(call[t].by, call[t].id)
                            IN \/ there.from = "env"
                               \/ there.from = "file" /\ there.value = call[t].value
  BY DEF UpdatesApartStand
<1>1. FileFits /\ \A t \in CredTasks : CallFits(call[t])
  BY DEF CredentialInv
<1>2. ~FileIs("torn") /\ (~FileIs("legacy") => Filed = wanted)
  BY <1>1 DEF FileFits, FileIs, Filed, Legacy
<1>3. ASSUME NEW t \in CredTasks, call[t].at = "done", call[t].op = "store",
             call[t].filed, call[t].value = wanted[call[t].id], ~inode[named.main].poor,
             call[t].id \notin EnvIds
      PROVE  /\ Found(call[t].by, call[t].id).from = "file"
             /\ Found(call[t].by, call[t].id).value = call[t].value
  <2>1. call[t] # NotCalling /\ CallFits(call[t])
    BY <1>1, <1>3, IdleRecord
  <2>2. named.main # 0 /\ FileReads(call[t].by) /\ call[t].value > 0 /\ call[t] \in StoreCalls
    BY <1>3, <2>1 DEF CallFits
  <2>3. IsReadable(call[t].by) /\ ~FileIs("legacy")
    BY <1>3, <2>2 DEF IsReadable, FileIs, FileReads
  <2>4. Filed[call[t].id] = call[t].value /\ Filed[call[t].id] # Nothing
    <3>1. call[t].value \in Nat
      BY <2>2 DEF StoreCalls
    <3> QED
      BY <1>2, <1>3, <2>2, <2>3, <3>1 DEF Nothing
  <2> QED
    BY <1>3, <2>3, <2>4 DEF Found
<1>4. ASSUME NEW t \in CredTasks, call[t].id \in EnvIds
      PROVE  Found(call[t].by, call[t].id).from = "env"
  BY <1>4 DEF Found
<1> QED
  BY <1>2, <1>3, <1>4

\* While no two updates overlap, the file holds what they made of it and a credential
\* stored in it is found again (file_provider.rs:500-640, mod.rs:203-235).
THEOREM UpdatesApartKeep == CredentialSpec => []UpdatesApartStand
BY CredentialInitInv, CredentialStep, CredentialInvGives, PTL DEF CredentialSpec

-----------------------------------------------------------------------------
(* RuntimeIntegrity: a round compares everything with one baseline.             *)

HashOrNone == FileContents \cup {0}
BaselineRecords == [is: BOOLEAN, left: SUBSET DataFiles, count: 0..MaxMapped,
                    file: [Files -> HashOrNone]]
Findings == [kind: Looks, of: Files \cup {"layout", "library"},
             expected: Nat, actual: Nat]

\* A finding against the baseline in force.
Against(v) ==
  /\ v.expected # v.actual
  /\ v.kind \in {"code", "data"} => v.expected = baseline.file[v.of]
  /\ v.kind = "memory" => v.expected = baseline.count

\* Whether a round found something of a kind, and whether a file is still to come.
KindOf(f) == IF f = "exe" THEN "code" ELSE "data"
SeenIn(s, kind) == \E i \in 1..Len(s) : s[i].kind = kind
AheadOf(at, left, f) ==
  \/ at = "code"
  \/ at = "data" /\ f # "exe" /\ f \in left

RoundTypes ==
  /\ onDisk \in [Files -> HashOrNone]
  /\ baseline \in BaselineRecords /\ updater \in BaselineRecords
  /\ checker \in [at: Looks \cup {"idle", "handle"}, left: SUBSET DataFiles,
                  found: Seq(Findings), kept: Nat]
  /\ violations \subseteq Looks /\ running \in BOOLEAN /\ lasting \subseteq Files

\* The round: nothing is left of one that ended, and what has differed all the time
\* is found or still to be looked at.
RoundRuns ==
  /\ checker.at = "idle" => checker = NoRound /\ lasting = {}
  /\ checker.kept <= Len(checker.found)
  /\ checker.at # "handle" => checker.kept = 0
  /\ \A i \in 1..Len(checker.found) : Against(checker.found[i])
  /\ \A f \in lasting : /\ Differs(f, onDisk)
                        /\ \/ AheadOf(checker.at, checker.left, f)
                           \/ SeenIn(checker.found, KindOf(f))

\* A critical violation is the last one that is kept.
CriticalEnds ==
  /\ \A i \in 1..checker.kept :
       checker.found[i].kind \in Critical => ~running /\ i = checker.kept
  /\ violations \cap Critical # {} => ~running

RoundInv == RoundTypes /\ RoundRuns /\ CriticalEnds

LEMMA RecordsOfRounds ==
  /\ NoFiles \in [Files -> HashOrNone] /\ NoBaseline \in BaselineRecords
  /\ "exe" \in Files /\ DataFiles \subseteq Files /\ "exe" \notin DataFiles
  /\ HashOrNone \subseteq Nat /\ MaxMapped \in Nat \ {0} /\ 1 \in HashOrNone
<1>1. NoFiles \in [Files -> HashOrNone]
  BY DEF NoFiles, HashOrNone
<1>2. "exe" \in Files /\ DataFiles \subseteq Files
  BY DEF Files
<1>3. HashOrNone \subseteq Nat /\ MaxMapped \in Nat \ {0} /\ "exe" \notin DataFiles
      /\ 1 \in HashOrNone
  BY RoundAssumption DEF HashOrNone
<1>4. NoBaseline \in BaselineRecords
  BY <1>1, <1>3 DEF NoBaseline, BaselineRecords
<1> QED
  BY <1>1, <1>2, <1>3, <1>4

LEMMA NoRoundRecord ==
  /\ NoRound \in [at: Looks \cup {"idle", "handle"}, left: SUBSET DataFiles,
                  found: Seq(Findings), kept: Nat]
  /\ NoRound.at = "idle" /\ NoRound.kept = 0
  /\ NoRound.found = <<>> /\ Len(NoRound.found) = 0
BY DEF NoRound

LEMMA RoundInitInv == RoundInit => RoundInv
<1> SUFFICES ASSUME RoundInit PROVE RoundInv
  OBVIOUS
<1>1. RoundTypes
  <2>1. onDisk \in [Files -> HashOrNone]
    BY RecordsOfRounds DEF RoundInit
  <2> QED
    BY <2>1, RecordsOfRounds, NoRoundRecord DEF RoundInit, RoundTypes
<1>2. RoundRuns /\ CriticalEnds
  BY NoRoundRecord DEF RoundInit, RoundRuns, CriticalEnds
<1> QED
  BY <1>1, <1>2 DEF RoundInv

\* Files change.
LEMMA WorldInv ==
  ASSUME RoundInv, NEW f \in Files, FileChanges(f)
  PROVE  RoundInv'
<1>1. UNCHANGED <<baseline, checker, updater, violations, running>>
  BY DEF FileChanges
<1>2. onDisk' \in [Files -> HashOrNone]
  BY DEF FileChanges, RoundInv, RoundTypes, HashOrNone
<1>3. \A g \in lasting' : g \in lasting /\ Differs(g, onDisk)'
  BY DEF FileChanges, Differs
<1>4. RoundTypes'
  BY <1>1, <1>2, <1>3 DEF RoundInv, RoundTypes, BaselineRecords, HashOrNone, Findings,
     Looks, Files
<1>5. RoundRuns'
  BY <1>1, <1>3 DEF RoundInv, RoundRuns, NoRound, Against, AheadOf, SeenIn, KindOf
<1>6. CriticalEnds'
  BY <1>1 DEF RoundInv, CriticalEnds, Critical
<1> QED
  BY <1>4, <1>5, <1>6 DEF RoundInv

\* A baseline is read and stored; while a round is under way the old one stands.
LEMMA RenewalInv ==
  ASSUME RoundInv,
         \/ BeginBaseline \/ FailBaseline \/ StoreBaseline
         \/ \E count \in 1..MaxMapped : ReadLayout(count)
         \/ \E f \in DataFiles : ReadForBaseline(f)
  PROVE  RoundInv'
<1>1. UNCHANGED <<onDisk, checker, violations, running, lasting>>
  <2>1. OnlyUpdater
    <3>1. ASSUME NEW f \in DataFiles, ReadForBaseline(f) PROVE OnlyUpdater
      BY <3>1, Zenon DEF ReadForBaseline
    <3>2. ASSUME NEW count \in 1..MaxMapped, ReadLayout(count) PROVE OnlyUpdater
      BY <3>2, Zenon DEF ReadLayout
    <3>3. CASE BeginBaseline \/ FailBaseline \/ StoreBaseline
      BY <3>3, Zenon DEF BeginBaseline, FailBaseline, StoreBaseline
    <3> QED
      BY <3>1, <3>2, <3>3
  <2> QED
    BY <2>1 DEF OnlyUpdater
<1>2. /\ updater \in BaselineRecords /\ baseline \in BaselineRecords
      /\ onDisk \in [Files -> HashOrNone]
  BY DEF RoundInv, RoundTypes
<1>3. updater' \in BaselineRecords /\ baseline' \in BaselineRecords
      /\ (baseline' = baseline \/ checker.at = "idle")
  <2>1. CASE BeginBaseline
    <3>1. [NoFiles EXCEPT !["exe"] = onDisk["exe"]] \in [Files -> HashOrNone]
      BY <1>2, RecordsOfRounds
    <3>2. updater' \in BaselineRecords
      BY <2>1, <3>1, RecordsOfRounds DEF BeginBaseline, BaselineRecords
    <3> QED
      BY <1>2, <2>1, <3>2 DEF BeginBaseline
  <2>2. ASSUME NEW count \in 1..MaxMapped, ReadLayout(count)
        PROVE  updater' \in BaselineRecords /\ baseline' = baseline
    <3>1. count \in 0..MaxMapped
      BY RecordsOfRounds
    <3> QED
      BY <1>2, <2>2, <3>1 DEF ReadLayout, BaselineRecords
  <2>3. CASE FailBaseline \/ StoreBaseline
    BY <1>2, <2>3, RecordsOfRounds DEF FailBaseline, StoreBaseline
  <2>4. ASSUME NEW f \in DataFiles, ReadForBaseline(f)
        PROVE  /\ updater' \in BaselineRecords /\ baseline' = baseline
    <3>1. updater' = [updater EXCEPT !.left = @ \ {f}, !.file[f] = onDisk[f]]
          /\ baseline' = baseline
      BY <2>4, Zenon DEF ReadForBaseline
    <3>2. onDisk[f] \in HashOrNone /\ f \in Files
      BY <1>2, RecordsOfRounds
    <3> QED
      BY <1>2, <3>1, <3>2 DEF BaselineRecords
  <2> QED
    BY <1>2, <2>1, <2>2, <2>3, <2>4
<1>4. RoundTypes'
  BY <1>1, <1>3 DEF RoundInv, RoundTypes, BaselineRecords, HashOrNone, Findings,
     Looks, Files
<1>5. RoundRuns'
  <2>1. CASE baseline' = baseline
    BY <1>1, <2>1 DEF RoundInv, RoundRuns, NoRound, Against, AheadOf, SeenIn, KindOf,
       Differs
  <2>2. CASE checker.at = "idle"
    BY <1>1, <2>2, NoRoundRecord DEF RoundInv, RoundRuns, NoRound
  <2> QED
    BY <1>3, <2>1, <2>2
<1>6. CriticalEnds'
  BY <1>1 DEF RoundInv, CriticalEnds, Critical
<1> QED
  BY <1>4, <1>5, <1>6 DEF RoundInv

LEMMA CheckerFields ==
  ASSUME RoundInv
  PROVE  /\ checker.at \in Looks \cup {"idle", "handle"} /\ checker.left \subseteq DataFiles
         /\ checker.found \in Seq(Findings) /\ checker.kept \in Nat
         /\ Len(checker.found) \in Nat
         /\ \A f \in Files : onDisk[f] \in Nat /\ baseline.file[f] \in Nat
         /\ baseline.count \in Nat
<1>1. baseline \in BaselineRecords /\ onDisk \in [Files -> HashOrNone]
  BY DEF RoundInv, RoundTypes
<1>2. baseline.file \in [Files -> HashOrNone] /\ baseline.count \in 0..MaxMapped
  BY <1>1 DEF BaselineRecords
<1>3. \A f \in Files : onDisk[f] \in Nat /\ baseline.file[f] \in Nat
  BY <1>1, <1>2, RecordsOfRounds
<1>4. baseline.count \in Nat
  BY <1>1, <1>2, RecordsOfRounds
<1> QED
  BY <1>3, <1>4 DEF RoundInv, RoundTypes

\* What a look adds to what was found is against the baseline in force.
LEMMA FindingAgainst ==
  ASSUME RoundInv, NEW kind \in Looks, NEW of \in Files \cup {"layout", "library"},
         NEW expected \in Nat, NEW actual \in Nat,
         kind \in {"code", "data"} => expected = baseline.file[of],
         kind = "memory" => expected = baseline.count,
         NEW s, s = WithFinding(kind, of, expected, actual)
  PROVE  /\ s \in Seq(Findings) /\ \A i \in 1..Len(s) : Against(s[i])
         /\ \A k : SeenIn(checker.found, k) => SeenIn(s, k)
         /\ expected # actual => SeenIn(s, kind)
<1>1. /\ checker.found \in Seq(Findings)
      /\ \A i \in 1..Len(checker.found) : Against(checker.found[i])
  BY CheckerFields DEF RoundInv, RoundRuns
<1>2. CASE expected = actual
  BY <1>1, <1>2 DEF WithFinding
<1>3. CASE expected # actual
  <2> DEFINE e == [kind |-> kind, of |-> of, expected |-> expected, actual |-> actual]
  <2>1. e \in Findings /\ Against(e) /\ e.kind = kind
    BY <1>3 DEF Findings, Against
  <2>2. s = Append(checker.found, e)
    BY <1>3 DEF WithFinding
  <2> HIDE DEF e
  <2>3. /\ s \in Seq(Findings) /\ Len(s) = Len(checker.found) + 1
        /\ \A i \in 1..Len(checker.found) : s[i] = checker.found[i]
        /\ s[Len(s)] = e /\ Len(checker.found) \in Nat
    BY <1>1, <2>1, <2>2
  <2>4. \A i \in 1..Len(s) : Against(s[i])
    BY <1>1, <2>1, <2>3
  <2>5. \A k : SeenIn(checker.found, k) => SeenIn(s, k)
    BY <2>3 DEF SeenIn
  <2>6. SeenIn(s, kind)
    BY <2>1, <2>3 DEF SeenIn
  <2> QED
    BY <2>3, <2>4, <2>5, <2>6
<1> QED
  BY <1>2, <1>3

\* A look goes on with what it found, and past no file that differs.
LEMMA LookInv ==
  ASSUME RoundInv, NEW at \in (Looks \ {"code"}) \cup {"handle"},
         NEW left \in SUBSET DataFiles, NEW s \in Seq(Findings), Proceed(at, left, s),
         \A i \in 1..Len(s) : Against(s[i]),
         \A f \in lasting : AheadOf(at, left, f) \/ SeenIn(s, KindOf(f))
  PROVE  RoundInv'
<1>1. /\ checker' = [at |-> at, left |-> left, found |-> s, kept |-> 0]
      /\ UNCHANGED <<onDisk, baseline, updater, violations, running, lasting>>
  BY DEF Proceed, OnlyChecker
<1>2. /\ checker'.at = at /\ checker'.left = left /\ checker'.found = s
      /\ checker'.kept = 0 /\ at # "idle" /\ Len(s) \in Nat
      /\ checker' \in [at: Looks \cup {"idle", "handle"}, left: SUBSET DataFiles,
                       found: Seq(Findings), kept: Nat]
  BY <1>1 DEF Looks
<1>3. RoundTypes'
  BY <1>1, <1>2 DEF RoundInv, RoundTypes, BaselineRecords, HashOrNone, Findings,
     Looks, Files
<1>4. RoundRuns'
  <2>1. \A i \in 1..Len(s) : Against(s[i])'
    BY <1>1 DEF Against
  <2>2. \A f \in lasting' : Differs(f, onDisk)'
    BY <1>1 DEF RoundInv, RoundRuns, Differs
  <2>3. \A f \in lasting' : AheadOf(at, left, f) \/ SeenIn(s, KindOf(f))
    BY <1>1
  <2> QED
    BY <1>2, <2>1, <2>2, <2>3 DEF RoundRuns, AheadOf, SeenIn, KindOf
<1>5. CriticalEnds'
  BY <1>1, <1>2 DEF RoundInv, CriticalEnds, Critical
<1> QED
  BY <1>3, <1>4, <1>5 DEF RoundInv

LEMMA LookAtCodeInv == ASSUME RoundInv, LookAtCode PROVE RoundInv'
<1> DEFINE left == {f \in DataFiles : baseline.file[f] # 0}
           s == WithFinding("code", "exe", baseline.file["exe"], onDisk["exe"])
<1>1. /\ Proceed(AfterCode(left), left, s) /\ onDisk["exe"] # 0
      /\ AfterCode(left) \in (Looks \ {"code"}) \cup {"handle"}
  BY DEF LookAtCode, IsThere, AfterCode, Looks
<1>2. /\ s \in Seq(Findings) /\ \A i \in 1..Len(s) : Against(s[i])
      /\ baseline.file["exe"] # onDisk["exe"] => SeenIn(s, "code")
  <2>1. "code" \in Looks /\ "exe" \in Files /\ onDisk["exe"] \in Nat
        /\ baseline.file["exe"] \in Nat
    BY CheckerFields, RecordsOfRounds DEF Looks
  <2> QED
    BY <2>1, FindingAgainst
<1>3. ASSUME NEW f \in lasting
      PROVE  AheadOf(AfterCode(left), left, f) \/ SeenIn(s, KindOf(f))
  <2>1. Differs(f, onDisk) /\ f \in Files
    BY DEF RoundInv, RoundTypes, RoundRuns
  <2>2. CASE f = "exe"
    BY <1>2, <2>1, <2>2 DEF Differs, KindOf
  <2>3. CASE f # "exe"
    <3>1. f \in left
      BY <2>1, <2>3 DEF Differs, Files
    <3> QED
      BY <2>3, <3>1 DEF AheadOf, AfterCode
  <2> QED
    BY <2>2, <2>3
<1>4. left \in SUBSET DataFiles
  OBVIOUS
<1> HIDE DEF left, s
<1> QED
  BY <1>1, <1>2, <1>3, <1>4, LookInv

LEMMA LookAtDataInv ==
  ASSUME RoundInv, NEW f \in DataFiles, LookAtData(f)
  PROVE  RoundInv'
<1> DEFINE left == IF Differs(f, onDisk) THEN {} ELSE checker.left \ {f}
           data == WithFinding("data", f, baseline.file[f], onDisk[f])
           s == IF Differs(f, onDisk) THEN data ELSE checker.found
<1>1. /\ Proceed(AfterCode(left), left, s) /\ checker.at = "data"
      /\ AfterCode(left) \in (Looks \ {"code"}) \cup {"handle"}
  BY DEF LookAtData, AfterCode, Looks
<1>2. /\ data \in Seq(Findings) /\ \A i \in 1..Len(data) : Against(data[i])
      /\ \A k : SeenIn(checker.found, k) => SeenIn(data, k)
      /\ baseline.file[f] # onDisk[f] => SeenIn(data, "data")
  <2>1. "data" \in Looks /\ f \in Files /\ onDisk[f] \in Nat /\ baseline.file[f] \in Nat
    BY CheckerFields, RecordsOfRounds DEF Looks
  <2> QED
    BY <2>1, FindingAgainst
<1>3. /\ s \in Seq(Findings) /\ \A i \in 1..Len(s) : Against(s[i])
      /\ \A k : SeenIn(checker.found, k) => SeenIn(s, k)
  BY <1>2, CheckerFields DEF RoundInv, RoundRuns
<1>4. ASSUME NEW g \in lasting
      PROVE  AheadOf(AfterCode(left), left, g) \/ SeenIn(s, KindOf(g))
  <2>1. /\ Differs(g, onDisk) /\ g \in Files
        /\ AheadOf("data", checker.left, g) \/ SeenIn(checker.found, KindOf(g))
    BY <1>1 DEF RoundInv, RoundTypes, RoundRuns
  <2>2. CASE SeenIn(checker.found, KindOf(g))
    BY <1>3, <2>2
  <2>3. CASE AheadOf("data", checker.left, g)
    <3>1. g # "exe" /\ g \in checker.left
      BY <2>3 DEF AheadOf
    <3>2. CASE Differs(f, onDisk)
      <4>1. SeenIn(data, "data")
        BY <1>2, <3>2 DEF Differs
      <4> QED
        BY <3>1, <3>2, <4>1 DEF KindOf
    <3>3. CASE ~Differs(f, onDisk)
      <4>1. g \in left
        BY <2>1, <3>1, <3>3
      <4> QED
        BY <3>1, <4>1 DEF AheadOf, AfterCode
    <3> QED
      BY <3>2, <3>3
  <2> QED
    BY <2>1, <2>2, <2>3
<1>5. left \in SUBSET DataFiles
  BY CheckerFields
<1> HIDE DEF left, s
<1> QED
  BY <1>1, <1>3, <1>4, <1>5, LookInv

\* Behind the data files nothing is ahead any more.
LEMMA LookAtMappedInv ==
  ASSUME RoundInv, \/ \E count \in 1..MaxMapped : LookAtMemory(count)
                   \/ \E suspicious \in BOOLEAN : LookAtMappings(suspicious)
  PROVE  RoundInv'
<1>1. checker.at \in {"memory", "injection"}
  BY DEF LookAtMemory, LookAtMappings
<1>2. \A f \in lasting : SeenIn(checker.found, KindOf(f))
  BY <1>1 DEF RoundInv, RoundRuns, AheadOf
<1>3. ASSUME NEW at \in {"injection", "handle"}, NEW s \in Seq(Findings),
             Proceed(at, {}, s), \A i \in 1..Len(s) : Against(s[i]),
             \A k : SeenIn(checker.found, k) => SeenIn(s, k)
      PROVE  RoundInv'
  <2>1. at \in (Looks \ {"code"}) \cup {"handle"} /\ {} \in SUBSET DataFiles
    BY DEF Looks
  <2>2. \A f \in lasting : AheadOf(at, {}, f) \/ SeenIn(s, KindOf(f))
    BY <1>2, <1>3
  <2> QED
    BY <1>3, <2>1, <2>2, LookInv
<1>4. ASSUME NEW count \in 1..MaxMapped, LookAtMemory(count) PROVE RoundInv'
  <2> DEFINE s == WithFinding("memory", "layout", baseline.count, count)
  <2>1. Proceed("injection", {}, s)
    BY <1>4 DEF LookAtMemory
  <2>2. "memory" \in Looks /\ count \in Nat /\ baseline.count \in Nat
    BY CheckerFields DEF Looks
  <2>3. /\ s \in Seq(Findings) /\ \A i \in 1..Len(s) : Against(s[i])
        /\ \A k : SeenIn(checker.found, k) => SeenIn(s, k)
    BY <2>2, FindingAgainst
  <2> HIDE DEF s
  <2> QED
    BY <1>3, <2>1, <2>3
<1>5. ASSUME NEW suspicious \in BOOLEAN, LookAtMappings(suspicious) PROVE RoundInv'
  <2> DEFINE strange == IF suspicious THEN 1 ELSE 0
             s == WithFinding("injection", "library", 0, strange)
  <2>1. Proceed("handle", {}, s)
    BY <1>5 DEF LookAtMappings
  <2>2. "injection" \in Looks /\ 0 \in Nat /\ strange \in Nat
    BY DEF Looks
  <2> HIDE DEF strange
  <2>3. /\ s \in Seq(Findings) /\ \A i \in 1..Len(s) : Against(s[i])
        /\ \A k : SeenIn(checker.found, k) => SeenIn(s, k)
    BY <2>2, FindingAgainst
  <2> HIDE DEF s
  <2> QED
    BY <1>3, <2>1, <2>3
<1> QED
  BY <1>4, <1>5

\* A round begins with every file ahead, and leaves nothing when it ends.
LEMMA RoundEdgesInv ==
  ASSUME RoundInv, BeginRound \/ EndRound \/ FailRound
  PROVE  RoundInv'
<1>1. UNCHANGED <<onDisk, baseline, updater, violations, running>>
  BY DEF BeginRound, EndRound, FailRound, OnlyChecker
<1>2. \/ checker' = NoRound /\ lasting' = {}
      \/ checker' = [NoRound EXCEPT !.at = "code"]
         /\ lasting' = {f \in Files : Differs(f, onDisk)}
  BY DEF BeginRound, EndRound, FailRound
<1>3. /\ checker' \in [at: Looks \cup {"idle", "handle"}, left: SUBSET DataFiles,
                       found: Seq(Findings), kept: Nat]
      /\ checker'.kept = 0 /\ checker'.found = <<>> /\ Len(checker'.found) = 0
      /\ checker' = NoRound \/ checker'.at = "code"
  BY <1>2, NoRoundRecord DEF Looks
<1>4. \A f \in lasting' : f \in Files /\ Differs(f, onDisk)' /\ checker'.at = "code"
  BY <1>1, <1>2, <1>3 DEF Differs, NoRound
<1>5. RoundTypes'
  BY <1>1, <1>3, <1>4 DEF RoundInv, RoundTypes, BaselineRecords, HashOrNone, Findings,
     Looks, Files
<1>6. RoundRuns'
  <2>1. checker'.at = "idle" => checker' = NoRound /\ lasting' = {}
    BY <1>2, <1>3, NoRoundRecord
  <2> QED
    BY <1>3, <1>4, <2>1 DEF RoundRuns, AheadOf
<1>7. CriticalEnds'
  BY <1>1, <1>3 DEF RoundInv, CriticalEnds, Critical
<1> QED
  BY <1>5, <1>6, <1>7 DEF RoundInv

LEMMA HandleViolationInv ==
  ASSUME RoundInv, HandleViolation
  PROVE  RoundInv'
<1> DEFINE n == checker.kept + 1
           kind == checker.found[n].kind
<1>1. /\ running /\ checker.at = "handle" /\ checker.kept < Len(checker.found)
      /\ violations' = violations \cup {kind} /\ running' = (kind \notin Critical)
      /\ checker' = [checker EXCEPT !.kept = n]
      /\ UNCHANGED <<onDisk, baseline, updater, lasting>>
  BY DEF HandleViolation, OnlyChecker
<1>2. /\ n \in Nat /\ n \in 1..Len(checker.found) /\ checker.kept \in Nat
      /\ kind \in Looks
  <2>1. n \in 1..Len(checker.found) /\ n \in Nat /\ checker.kept \in Nat
    BY <1>1, CheckerFields
  <2>2. checker.found[n] \in Findings
    BY <2>1, CheckerFields
  <2> QED
    BY <2>1, <2>2 DEF Findings
<1>3. /\ checker'.at = "handle" /\ checker'.left = checker.left
      /\ checker'.found = checker.found /\ checker'.kept = n
      /\ checker' \in [at: Looks \cup {"idle", "handle"}, left: SUBSET DataFiles,
                       found: Seq(Findings), kept: Nat]
  BY <1>1, <1>2 DEF RoundInv, RoundTypes
<1> HIDE DEF n
<1>4. RoundTypes'
  <2>1. running' \in BOOLEAN
    BY <1>1, Zenon
  <2>2. violations' \subseteq Looks
    BY <1>1, <1>2 DEF RoundInv, RoundTypes
  <2> QED
    BY <1>1, <1>3, <2>1, <2>2 DEF RoundInv, RoundTypes, BaselineRecords, HashOrNone,
       Findings, Looks, Files
<1>5. RoundRuns'
  <2>1. \A i \in 1..Len(checker'.found) : Against(checker.found[i])'
    BY <1>1, <1>3 DEF RoundInv, RoundRuns, Against
  <2>2. \A f \in lasting' : Differs(f, onDisk)' /\ SeenIn(checker.found, KindOf(f))
    BY <1>1 DEF RoundInv, RoundRuns, Differs, AheadOf
  <2>3. checker'.kept <= Len(checker'.found)
    BY <1>2, <1>3
  <2> QED
    BY <1>3, <2>1, <2>2, <2>3 DEF RoundRuns, SeenIn, KindOf
<1>6. \A i \in 1..checker.kept : checker.found[i].kind \notin Critical
  BY <1>1 DEF RoundInv, CriticalEnds
<1>7. \A i \in 1..n : i = n \/ i \in 1..checker.kept
  BY <1>2 DEF n
<1>8. CriticalEnds'
  <2>1. \A i \in 1..n : checker.found[i].kind \in Critical => kind \in Critical /\ i = n
    BY <1>6, <1>7
  <2>2. violations' \cap Critical # {} => kind \in Critical
    BY <1>1 DEF RoundInv, CriticalEnds
  <2>3. kind \in Critical => ~running'
    BY <1>1, Zenon
  <2> QED
    BY <1>3, <2>1, <2>2, <2>3 DEF CriticalEnds, Critical
<1> QED
  BY <1>4, <1>5, <1>8 DEF RoundInv

LEMMA ClearViolationsInv ==
  ASSUME RoundInv, ClearViolations \/ UNCHANGED RoundVars
  PROVE  RoundInv'
<1>1. /\ UNCHANGED <<onDisk, baseline, updater, checker, running, lasting>>
      /\ violations' \subseteq violations
  BY DEF ClearViolations, RoundVars, OnlyChecker
<1>2. RoundTypes'
  BY <1>1 DEF RoundInv, RoundTypes, BaselineRecords, HashOrNone, Findings, Looks, Files
<1>3. RoundRuns'
  BY <1>1 DEF RoundInv, RoundRuns, NoRound, Against, AheadOf, SeenIn, KindOf, Differs
<1>4. CriticalEnds'
  BY <1>1 DEF RoundInv, CriticalEnds, Critical
<1> QED
  BY <1>2, <1>3, <1>4 DEF RoundInv

LEMMA RoundStep == RoundInv /\ [RoundNext]_RoundVars => RoundInv'
BY WorldInv, RenewalInv, LookAtCodeInv, LookAtDataInv, LookAtMappedInv, RoundEdgesInv,
   HandleViolationInv, ClearViolationsInv DEF RoundNext

LEMMA RoundInvGives == RoundInv => ViolationsAreFounded
<1> SUFFICES ASSUME RoundInv PROVE ViolationsAreFounded
  OBVIOUS
<1>1. DOMAIN checker.found = 1..Len(checker.found)
  BY CheckerFields
<1>2. ASSUME NEW i \in 1..Len(checker.found)
      PROVE  /\ Against(checker.found[i])
             /\ checker.found[i].kind \in Critical /\ i <= checker.kept =>
                  ~running /\ i = checker.kept
  <2>1. i <= checker.kept => i \in 1..checker.kept
    BY CheckerFields
  <2> QED
    BY <2>1 DEF RoundInv, RoundRuns, CriticalEnds
<1>3. checker.at = "handle" => \A f \in lasting : SeenIn(checker.found, KindOf(f))
  BY DEF RoundInv, RoundRuns, AheadOf
<1> QED
  BY <1>1, <1>2, <1>3 DEF ViolationsAreFounded, RoundInv, CriticalEnds, Against, SeenIn,
     KindOf

LEMMA RoundHolds == RoundSpec => []RoundInv
BY RoundInitInv, RoundStep, PTL DEF RoundSpec

\* For any data files and contents, whatever is written, removed or put back and
\* whatever baseline is made meanwhile: what a round found is against the baseline in
\* force, it finds what has differed since it began, and keeps nothing after a critical
\* violation (integrity.rs:370-700).
THEOREM ViolationsStayFounded == RoundSpec => []ViolationsAreFounded
BY RoundHolds, RoundInvGives, PTL

-----------------------------------------------------------------------------
(* SecurityDashboard: alerts, exports and snapshots add up.                     *)

LEMMA MaxOfTwo ==
  ASSUME NEW a \in Int, NEW b \in Int
  PROVE  Max({a, b}) = IF a >= b THEN a ELSE b
<1>1. \E x \in {a, b} : \A y \in {a, b} : x >= y
  OBVIOUS
<1> QED
  BY <1>1 DEF Max

LEMMA MinOfTwo ==
  ASSUME NEW a \in Int, NEW b \in Int
  PROVE  Min({a, b}) = IF a <= b THEN a ELSE b
<1>1. \E x \in {a, b} : \A y \in {a, b} : x <= y
  OBVIOUS
<1> QED
  BY <1>1 DEF Min

LEMMA MinOfThree ==
  ASSUME NEW a \in Int, NEW b \in Int, NEW c \in Int
  PROVE  Min({a, b, c}) = IF a <= b /\ a <= c THEN a ELSE IF b <= c THEN b ELSE c
<1>1. \E x \in {a, b, c} : \A y \in {a, b, c} : x <= y
  OBVIOUS
<1> QED
  BY <1>1 DEF Min

\* The last n of a sequence, or all of it.
LEMMA NewestOf ==
  ASSUME NEW S, NEW s \in Seq(S), NEW n \in Nat
  PROVE  /\ Newest(s, n) \in Seq(S)
         /\ Len(Newest(s, n)) = IF Len(s) <= n THEN Len(s) ELSE n
         /\ \A i \in 1..Len(Newest(s, n)) :
              /\ Len(s) - Len(Newest(s, n)) + i \in 1..Len(s)
              /\ Newest(s, n)[i] = s[Len(s) - Len(Newest(s, n)) + i]
<1>1. Len(s) \in Nat /\ \A i \in 1..Len(s) : s[i] \in S
  OBVIOUS
<1> DEFINE m == IF 1 >= Len(s) - n + 1 THEN 1 ELSE Len(s) - n + 1
<1>2. m \in Int /\ Newest(s, n) = SubSeq(s, m, Len(s))
  <2>1. Len(s) - n + 1 \in Int /\ 1 \in Int
    BY <1>1
  <2>2. Max({1, Len(s) - n + 1}) = m
    BY <2>1, MaxOfTwo
  <2> QED
    BY <2>1, <2>2 DEF Newest
<1>3. m \in 1..(Len(s) + 1)
  BY <1>1
<1>a. m = IF Len(s) <= n THEN 1 ELSE Len(s) - n + 1
  BY <1>1
<1> HIDE DEF m
<1>4. \A i \in m..Len(s) : s[i] \in S
  BY <1>1, <1>3
<1>5. /\ SubSeq(s, m, Len(s)) \in Seq(S)
      /\ Len(SubSeq(s, m, Len(s))) = IF m <= Len(s) THEN Len(s) - m + 1 ELSE 0
      /\ \A i \in 1..(Len(s) - m + 1) : SubSeq(s, m, Len(s))[i] = s[m + i - 1]
  BY <1>1, <1>2, <1>4, SubSeqProperties
<1>6. Len(Newest(s, n)) = Len(s) - m + 1
  BY <1>1, <1>2, <1>3, <1>5
<1>7. Len(Newest(s, n)) = IF Len(s) <= n THEN Len(s) ELSE n
  BY <1>1, <1>6, <1>a
<1>8. \A i \in 1..Len(Newest(s, n)) :
        /\ Len(s) - Len(Newest(s, n)) + i = m + i - 1 /\ m + i - 1 \in 1..Len(s)
  BY <1>1, <1>3, <1>6
<1> QED
  BY <1>2, <1>5, <1>6, <1>7, <1>8

MetricFields == [total: Nat, attempts: Nat, failed: Nat, lastHour: Nat,
                 violations: Nat, critical: Nat]

\* Metrics that were counted on from earlier ones.
After(n, m) ==
  /\ m.total <= n.total /\ m.attempts <= n.attempts /\ m.failed <= n.failed
  /\ m.violations <= n.violations /\ m.critical <= n.critical
  /\ m.attempts = n.attempts => m.failed = n.failed

\* The alerts that metrics call for.
Owed(m) == LET first == Max({1, AuthThreshold})
           IN m.critical + (IF m.failed < first THEN 0 ELSE m.failed - first + 1)

LEMMA ScoreFalls ==
  ASSUME NEW m \in MetricFields, NEW n \in MetricFields, After(n, m)
  PROVE  /\ SecurityScore(m) \in Int /\ SecurityScore(n) \in Int
         /\ m.attempts = n.attempts => SecurityScore(n) <= SecurityScore(m)
<1>1. SecurityScore(m) \in Int /\ SecurityScore(n) \in Int
  BY DEF SecurityScore
<1>2. ASSUME m.attempts = n.attempts PROVE SecurityScore(n) <= SecurityScore(m)
  BY <1>2 DEF SecurityScore, After, MetricFields
<1> QED
  BY <1>1, <1>2

LEMMA CountedOf ==
  ASSUME NEW m \in MetricFields, NEW e \in AuditEvents
  PROVE  /\ Counted(m, e) \in MetricFields /\ After(Counted(m, e), m)
         /\ Counted(m, e).total = m.total + 1
         /\ m.lastHour = m.failed => Counted(m, e).lastHour = Counted(m, e).failed
         /\ Counted(m, e).failed = IF e.type = "auth" /\ e.outcome = "failure"
                                   THEN m.failed + 1 ELSE m.failed
         /\ Counted(m, e).critical = IF e.type = "violation" /\ e.severity = "critical"
                                     THEN m.critical + 1 ELSE m.critical
BY DEF Counted, After, MetricFields

Kept == {Enriched(e) : e \in AuditEvents}
Snapshots == [metrics: MetricFields, score: Int, alerts: Nat]
Least(a, b) == IF a <= b THEN a ELSE b

\* The event being processed, the events kept and the alerts raised for them.
EventInv ==
  /\ metrics \in MetricFields /\ metrics.lastHour = metrics.failed
  /\ recent \in Seq(Kept) /\ current.at \in {"idle", "count", "alert"}
  /\ current.at # "idle" => /\ current.event \in AuditEvents
                            /\ current = [at |-> current.at, event |-> current.event]
  /\ Len(recent) = Least(MaxEvents, metrics.total + (IF current.at = "count" THEN 1 ELSE 0))
  /\ raised \in Int
  /\ Owed(metrics) =
       raised + (IF current.at = "alert" THEN Len(AlertsOf(current.event)) ELSE 0)

SnapshotInv ==
  /\ snapshots \in Seq(Snapshots)
  /\ \A i \in 1..Len(snapshots) : snapshots[i].metrics.violations <= metrics.violations
  /\ \A i, j \in 1..Len(snapshots) :
       i < j => snapshots[i].metrics.violations <= snapshots[j].metrics.violations

ExportInv ==
  /\ export = [at |-> export.at, metrics |-> export.metrics, events |-> export.events,
               alerts |-> export.alerts, score |-> export.score]
  /\ export.at # "idle" => /\ export.metrics \in MetricFields
                           /\ After(metrics, export.metrics)
  /\ export.at \in {"rest", "done"} =>
       /\ Len(export.events) \in Nat
       /\ Len(export.events) >= Least(Least(MaxEvents, ListLimit), export.metrics.total)
  /\ export.at = "done" /\ export.metrics.attempts = metrics.attempts =>
       export.score <= SecurityScore(export.metrics)

DashboardInv == EventInv /\ SnapshotInv /\ ExportInv

LEMMA DashboardInitInv == DashboardInit => DashboardInv
<1> SUFFICES ASSUME DashboardInit PROVE DashboardInv
  OBVIOUS
<1> USE DashboardAssumption
<1>1. metrics = NoMetrics /\ NoMetrics \in MetricFields /\ recent = <<>> /\ raised = 0
      /\ current.at = "idle" /\ snapshots = <<>> /\ export = NoExport
  BY DEF DashboardInit, NoMetrics, MetricFields
<1>2. Owed(metrics) = 0
  <2>1. Max({1, AuthThreshold}) >= 1 /\ Max({1, AuthThreshold}) \in Int
    BY MaxOfTwo
  <2> HIDE DashboardAssumption
  <2> QED
    BY <1>1, <2>1 DEF Owed, NoMetrics
<1>3. EventInv
  BY <1>1, <1>2 DEF EventInv, NoMetrics, Least
<1>4. SnapshotInv
  BY <1>1 DEF SnapshotInv
<1>5. ExportInv
  BY <1>1 DEF ExportInv, NoExport
<1> QED
  BY <1>3, <1>4, <1>5 DEF DashboardInv

\* Counting on leaves the snapshots and the export as sound as they were.
LEMMA CountingKeeps ==
  ASSUME SnapshotInv, ExportInv, UNCHANGED <<snapshots, export>>,
         metrics \in MetricFields, metrics' \in MetricFields, After(metrics', metrics)
  PROVE  SnapshotInv' /\ ExportInv'
<1>1. SnapshotInv'
  <2>1. ASSUME NEW i \in 1..Len(snapshots)
        PROVE  snapshots[i].metrics.violations <= metrics'.violations
    <3>1. snapshots[i] \in Snapshots /\ snapshots[i].metrics.violations <= metrics.violations
      BY DEF SnapshotInv
    <3>2. snapshots[i].metrics.violations \in Nat
      BY <3>1 DEF Snapshots, MetricFields
    <3>3. /\ metrics.violations \in Nat /\ metrics'.violations \in Nat
          /\ metrics.violations <= metrics'.violations
      BY DEF After, MetricFields
    <3> QED
      BY <3>1, <3>2, <3>3
  <2> QED
    BY <2>1 DEF SnapshotInv, Snapshots, MetricFields
<1>2. ExportInv'
  <2>1. ASSUME export.at # "idle"
        PROVE  /\ After(metrics', export.metrics) /\ export.metrics \in MetricFields
               /\ export.metrics.attempts = metrics'.attempts =>
                    export.metrics.attempts = metrics.attempts
    <3>1. export.metrics \in MetricFields /\ After(metrics, export.metrics)
      BY <2>1 DEF ExportInv
    <3> QED
      BY <3>1 DEF After, MetricFields
  <2> QED
    BY <2>1 DEF ExportInv, MetricFields, Least, After
<1> QED
  BY <1>1, <1>2

LEMMA AuditEventFields ==
  ASSUME NEW e \in AuditEvents
  PROVE  e.type = "auth" => e.type # "violation"
OBVIOUS

LEMMA BeginEventInv ==
  ASSUME DashboardInv, NEW e \in AuditEvents, BeginEvent(e)
  PROVE  DashboardInv'
<1>1. /\ current.at = "idle" /\ recent' = Newest(Append(recent, Enriched(e)), MaxEvents)
      /\ current' = [at |-> "count", event |-> e]
      /\ UNCHANGED <<metrics, alerts, raised, snapshots, export>>
  BY DEF BeginEvent
<1>2. EventInv /\ metrics.total \in Nat
  BY DEF DashboardInv, EventInv, MetricFields
<1>3. /\ recent \in Seq(Kept) /\ Enriched(e) \in Kept
      /\ Append(recent, Enriched(e)) \in Seq(Kept)
      /\ Len(Append(recent, Enriched(e))) = Len(recent) + 1 /\ Len(recent) \in Nat
  BY <1>2 DEF EventInv, Kept
<1>4. MaxEvents \in Nat
  BY DashboardAssumption
<1>5. /\ recent' \in Seq(Kept)
      /\ Len(recent') = IF Len(recent) + 1 <= MaxEvents THEN Len(recent) + 1 ELSE MaxEvents
  <2> PICK longer : longer = Append(recent, Enriched(e))
    OBVIOUS
  <2>1. longer \in Seq(Kept) /\ Len(longer) = Len(recent) + 1
    BY <1>3
  <2>2. /\ Newest(longer, MaxEvents) \in Seq(Kept)
        /\ Len(Newest(longer, MaxEvents)) =
             IF Len(longer) <= MaxEvents THEN Len(longer) ELSE MaxEvents
    BY <1>4, <2>1, NewestOf
  <2> QED
    BY <1>1, <2>1, <2>2
<1>6. Len(recent') = Least(MaxEvents, metrics.total + 1)
  BY <1>1, <1>2, <1>3, <1>4, <1>5 DEF EventInv, Least
<1>7. EventInv'
  <2>1. current'.at = "count" /\ current'.event = e
        /\ current' = [at |-> current'.at, event |-> current'.event]
    BY <1>1
  <2>2. Owed(metrics') = Owed(metrics) /\ MetricFields' = MetricFields
    BY <1>1 DEF MetricFields
  <2>3. recent' \in Seq(Kept')
    BY <1>5 DEF Kept
  <2> QED
    BY <1>1, <1>2, <1>6, <2>1, <2>2, <2>3 DEF EventInv, Least, AuditEvents, Event, Owed
<1>8. SnapshotInv' /\ ExportInv'
  BY <1>1 DEF DashboardInv, SnapshotInv, ExportInv, Snapshots, MetricFields, Least, After
<1> QED
  BY <1>7, <1>8 DEF DashboardInv

LEMMA OneMoreOwed ==
  ASSUME NEW c \in Nat, NEW f \in Nat, NEW first \in Nat, first >= 1
  PROVE  c + (IF f + 1 < first THEN 0 ELSE f + 1 - first + 1)
           - (c + (IF f < first THEN 0 ELSE f - first + 1))
         = IF f + 1 >= first THEN 1 ELSE 0
<1>1. CASE f >= first
  BY <1>1
<1>2. CASE f < first
  BY <1>2
<1> QED
  BY <1>1, <1>2

LEMMA CountEventInv == ASSUME DashboardInv, CountEvent PROVE DashboardInv'
<1>1. /\ current.at = "count" /\ metrics' = Counted(metrics, current.event)
      /\ current' = [current EXCEPT !.at = "alert"]
      /\ UNCHANGED <<recent, alerts, raised, snapshots, export>>
  BY DEF CountEvent
<1>2. /\ EventInv /\ metrics \in MetricFields /\ metrics.total \in Nat
      /\ metrics.failed \in Nat /\ metrics.critical \in Nat
  BY DEF DashboardInv, EventInv, MetricFields
<1>3. current.event \in AuditEvents /\ current = [at |-> current.at, event |-> current.event]
  BY <1>1, <1>2 DEF EventInv
<1>4. current'.at = "alert" /\ current'.event = current.event
      /\ current' = [at |-> current'.at, event |-> current'.event]
  BY <1>1, <1>3
<1> PICK e \in AuditEvents : e = current.event
  BY <1>3
<1>5. /\ metrics' \in MetricFields /\ After(metrics', metrics)
      /\ metrics'.total = metrics.total + 1 /\ metrics'.lastHour = metrics'.failed
      /\ metrics'.failed = IF e.type = "auth" /\ e.outcome = "failure"
                           THEN metrics.failed + 1 ELSE metrics.failed
      /\ metrics'.critical = IF e.type = "violation" /\ e.severity = "critical"
                             THEN metrics.critical + 1 ELSE metrics.critical
  BY <1>1, <1>2, CountedOf DEF EventInv
<1> DEFINE first == Max({1, AuthThreshold})
<1>6. first \in Nat /\ (first = IF AuthThreshold <= 1 THEN 1 ELSE AuthThreshold)
      /\ AuthThreshold \in Nat
  <2>1. AuthThreshold \in Nat
    BY DashboardAssumption
  <2> QED
    BY <2>1, MaxOfTwo
<1>7. Owed(metrics) = metrics.critical + (IF metrics.failed < first THEN 0
                                          ELSE metrics.failed - first + 1)
      /\ Owed(metrics)' = metrics'.critical + (IF metrics'.failed < first THEN 0
                                          ELSE metrics'.failed - first + 1)
  BY DEF Owed
<1>8. AlertsOf(current.event)' = (IF /\ e.type = "auth" /\ e.outcome = "failure"
                                     /\ metrics'.failed >= AuthThreshold
                                  THEN <<"rate">>
                                  ELSE IF e.type = "violation" /\ e.severity = "critical"
                                       THEN <<"violation">> ELSE <<>>)
  BY <1>4, <1>5 DEF AlertsOf
<1> HIDE DEF first
<1>9. Len(AlertsOf(current.event)') = Owed(metrics)' - Owed(metrics)
      /\ Owed(metrics) \in Int /\ Owed(metrics)' \in Int
  <2>1. e.type = "auth" => e.type # "violation"
    OBVIOUS
  <2>2. metrics'.failed \in Nat /\ metrics'.critical \in Nat
    BY <1>5 DEF MetricFields
  <2>3. CASE e.type = "auth" /\ e.outcome = "failure"
    <3>1. metrics'.failed = metrics.failed + 1 /\ metrics'.critical = metrics.critical
      BY <1>5, <2>1, <2>3
    <3>2. metrics'.failed >= AuthThreshold <=> metrics'.failed >= first
      BY <1>2, <1>6, <3>1
    <3>3. Len(AlertsOf(current.event)') = IF metrics'.failed >= first THEN 1 ELSE 0
      BY <1>8, <2>1, <2>3, <3>2
    <3>4. Owed(metrics)' - Owed(metrics) = IF metrics'.failed >= first THEN 1 ELSE 0
      <4>1. first >= 1
        BY <1>6
      <4> QED
        BY <1>2, <1>6, <1>7, <3>1, <4>1, OneMoreOwed
    <3>5. Owed(metrics) \in Int /\ Owed(metrics)' \in Int
      BY <1>2, <1>6, <1>7, <2>2
    <3> QED
      BY <3>3, <3>4, <3>5
  <2>4. CASE ~(e.type = "auth" /\ e.outcome = "failure")
    <3>1. metrics'.failed = metrics.failed
          /\ metrics'.critical = metrics.critical +
               (IF e.type = "violation" /\ e.severity = "critical" THEN 1 ELSE 0)
      BY <1>2, <1>5, <2>4
    <3>2. Len(AlertsOf(current.event)') =
            IF e.type = "violation" /\ e.severity = "critical" THEN 1 ELSE 0
      BY <1>8, <2>4
    <3> QED
      BY <1>2, <1>6, <1>7, <2>2, <3>1, <3>2
  <2> QED
    BY <2>3, <2>4
<1>10. EventInv'
  <2>1. Len(recent') = Least(MaxEvents, metrics'.total)
    BY <1>1, <1>2, <1>5 DEF EventInv, Least
  <2>2. Owed(metrics)' = raised' + Len(AlertsOf(current.event)')
    BY <1>1, <1>2, <1>9 DEF EventInv
  <2>3. recent' \in Seq(Kept')
    BY <1>1, <1>2 DEF EventInv, Kept
  <2>4. raised' \in Int
    BY <1>1, <1>2 DEF EventInv
  <2>5. Len(recent') = Least(MaxEvents, metrics'.total + 0)
    BY <1>5, <2>1 DEF MetricFields
  <2> HIDE DEF Kept, AuditEvents
  <2> QED
    BY <1>3, <1>4, <1>5, <2>2, <2>3, <2>4, <2>5 DEF EventInv, MetricFields
<1>11. SnapshotInv' /\ ExportInv'
  BY <1>1, <1>2, <1>5, CountingKeeps DEF DashboardInv
<1> QED
  BY <1>10, <1>11 DEF DashboardInv

\* Steps that only move the alerts, or nothing of the rest.
LEMMA RestKeeps ==
  ASSUME UNCHANGED <<metrics, snapshots, export>>
  PROVE  (SnapshotInv <=> SnapshotInv') /\ (ExportInv <=> ExportInv')
BY DEF SnapshotInv, ExportInv, Snapshots, MetricFields, Least, After

LEMMA RaiseAlertsInv == ASSUME DashboardInv, RaiseAlerts PROVE DashboardInv'
<1>1. /\ current.at = "alert" /\ current' = [at |-> "idle"]
      /\ raised' = raised + Len(AlertsOf(current.event))
      /\ UNCHANGED <<metrics, recent, snapshots, export>>
  BY DEF RaiseAlerts
<1>2. EventInv
  BY DEF DashboardInv
<1>3. current'.at = "idle" /\ Owed(metrics') = Owed(metrics)
  BY <1>1 DEF Owed
<1>4. Len(AlertsOf(current.event)) \in Nat
  BY DEF AlertsOf
<1>5. EventInv'
  BY <1>1, <1>2, <1>3, <1>4 DEF EventInv, MetricFields, Kept, Least
<1> QED
  BY <1>1, <1>5, RestKeeps DEF DashboardInv

LEMMA EventsRest ==
  ASSUME EventInv, UNCHANGED <<metrics, recent, raised, current>>
  PROVE  EventInv'
BY DEF EventInv, MetricFields, Kept, Least, Owed, AlertsOf

LEMMA TakeSnapshotInv == ASSUME DashboardInv, TakeSnapshot PROVE DashboardInv'
<1> PICK n \in 0..MaxSnapshots :
      snapshots' = Newest(Append(snapshots, [metrics |-> metrics,
                            score |-> SecurityScore(metrics), alerts |-> 0]), n)
  BY DEF TakeSnapshot
<1>1. UNCHANGED <<metrics, recent, alerts, raised, current, export>>
  BY DEF TakeSnapshot
<1>2. metrics \in MetricFields /\ metrics.violations \in Nat /\ SnapshotInv
  BY DEF DashboardInv, EventInv, MetricFields
<1> DEFINE r == [metrics |-> metrics, score |-> SecurityScore(metrics), alerts |-> 0]
<1> PICK s : s = Append(snapshots, r)
  OBVIOUS
<1>3. r \in Snapshots /\ r.metrics = metrics
  BY <1>2 DEF Snapshots, SecurityScore
<1> HIDE DEF r
<1> PICK k \in Nat : k = Len(snapshots)
  BY <1>2 DEF SnapshotInv
<1>4. s \in Seq(Snapshots) /\ Len(s) = k + 1 /\ s[k + 1] = r
      /\ \A i \in 1..k : s[i] = snapshots[i]
  BY <1>2, <1>3 DEF SnapshotInv
<1>5. n \in Nat /\ snapshots' = Newest(s, n)
  BY DashboardAssumption DEF r
<1>a. s \in Seq(Snapshots) /\ n \in Nat
  BY <1>4, <1>5
<1>b. /\ Newest(s, n) \in Seq(Snapshots)
      /\ \A i \in 1..Len(Newest(s, n)) :
           /\ Len(s) - Len(Newest(s, n)) + i \in 1..Len(s)
           /\ Newest(s, n)[i] = s[Len(s) - Len(Newest(s, n)) + i]
  BY <1>a, NewestOf
<1> DEFINE l == Len(snapshots')
<1>6. /\ snapshots' \in Seq(Snapshots) /\ l \in Nat
      /\ \A i \in 1..l : k + 1 - l + i \in 1..(k + 1) /\ snapshots'[i] = s[k + 1 - l + i]
  <2>1. Len(s) = k + 1 /\ snapshots' = Newest(s, n)
    BY <1>4, <1>5
  <2>2. snapshots' \in Seq(Snapshots) /\ l \in Nat
    BY <1>b, <2>1
  <2>3. ASSUME NEW i \in 1..l
        PROVE  k + 1 - l + i \in 1..(k + 1) /\ snapshots'[i] = s[k + 1 - l + i]
    <3>1. i \in 1..Len(Newest(s, n)) /\ l = Len(Newest(s, n))
      BY <2>1, <2>3
    <3>2. /\ Len(s) - Len(Newest(s, n)) + i \in 1..Len(s)
          /\ Newest(s, n)[i] = s[Len(s) - Len(Newest(s, n)) + i]
      BY <1>b, <3>1
    <3> HIDE DEF l
    <3> QED
      BY <2>1, <3>1, <3>2
  <2> QED
    BY <2>2, <2>3
<1> HIDE DEF l
<1>7. ASSUME NEW i \in 1..k PROVE snapshots[i].metrics.violations \in Nat
  <2>1. snapshots[i] \in Snapshots
    BY <1>2 DEF SnapshotInv
  <2> QED
    BY <2>1 DEF Snapshots, MetricFields
<1>8. \A i \in 1..(k + 1) : s[i].metrics.violations <= metrics.violations
  <2>1. \A i \in 1..k : s[i].metrics.violations <= metrics.violations
    BY <1>2, <1>4 DEF SnapshotInv
  <2>2. s[k + 1].metrics.violations <= metrics.violations
    BY <1>2, <1>3, <1>4
  <2> QED
    BY <2>1, <2>2
<1>9. ASSUME NEW i \in 1..(k + 1), NEW j \in 1..(k + 1), i < j
      PROVE  s[i].metrics.violations <= s[j].metrics.violations
  <2>1. CASE j = k + 1
    BY <1>3, <1>4, <1>8, <2>1
  <2>2. CASE j # k + 1
    <3>1. i \in 1..k /\ j \in 1..k
      BY <1>9, <2>2
    <3> QED
      BY <1>2, <1>4, <1>9, <3>1 DEF SnapshotInv
  <2> QED
    BY <2>1, <2>2
<1>10. SnapshotInv'
  <2>1. \A i \in 1..l : snapshots'[i].metrics.violations <= metrics'.violations
    BY <1>1, <1>6, <1>8
  <2>2. ASSUME NEW i \in 1..l, NEW j \in 1..l, i < j
        PROVE  snapshots'[i].metrics.violations <= snapshots'[j].metrics.violations
    <3>1. k + 1 - l + i < k + 1 - l + j
      BY <1>6, <2>2
    <3> QED
      BY <1>6, <1>9, <3>1
  <2> QED
    BY <1>6, <2>1, <2>2 DEF SnapshotInv, l, Snapshots, MetricFields
<1>11. ExportInv'
  BY <1>1 DEF DashboardInv, ExportInv, MetricFields, Least, After
<1> QED
  BY <1>1, <1>10, <1>11, EventsRest DEF DashboardInv

LEMMA ExportMetricsInv == ASSUME DashboardInv, ExportMetrics PROVE DashboardInv'
<1>1. export' = [NoExport EXCEPT !.at = "events", !.metrics = metrics]
      /\ UNCHANGED <<metrics, recent, alerts, raised, current, snapshots>>
  BY DEF ExportMetrics
<1>2. export' = [at |-> "events", metrics |-> metrics, events |-> <<>>, alerts |-> 0,
                 score |-> 0]
  BY <1>1 DEF NoExport
<1>3. metrics \in MetricFields /\ After(metrics, metrics)
  BY DEF DashboardInv, EventInv, After, MetricFields
<1>4. ExportInv'
  BY <1>1, <1>2, <1>3 DEF ExportInv, MetricFields, After
<1>5. SnapshotInv'
  BY <1>1 DEF DashboardInv, SnapshotInv, Snapshots, MetricFields
<1> QED
  BY <1>1, <1>4, <1>5, EventsRest DEF DashboardInv

LEMMA ExportEventsInv == ASSUME DashboardInv, ExportEvents PROVE DashboardInv'
<1>1. /\ export.at = "events" /\ current.at = "idle"
      /\ export' = [export EXCEPT !.at = "rest", !.events = Reverse(Newest(recent, ListLimit))]
      /\ UNCHANGED <<metrics, recent, alerts, raised, current, snapshots>>
  BY DEF ExportEvents
<1>2. EventInv /\ ExportInv /\ MaxEvents \in Nat /\ ListLimit \in Nat
  BY DashboardAssumption DEF DashboardInv
<1> PICK listed : listed = Reverse(Newest(recent, ListLimit))
  OBVIOUS
<1>3. Len(listed) \in Nat /\ Len(recent) \in Nat
      /\ Len(listed) = Least(ListLimit, Len(recent))
  <2>1. recent \in Seq(Kept) /\ Len(recent) \in Nat
    BY <1>2 DEF EventInv
  <2>2. /\ Newest(recent, ListLimit) \in Seq(Kept)
        /\ Len(Newest(recent, ListLimit)) = IF Len(recent) <= ListLimit THEN Len(recent)
                                                                      ELSE ListLimit
    BY <1>2, <2>1, NewestOf
  <2>3. Len(listed) = Len(Newest(recent, ListLimit))
    BY <2>2 DEF Reverse
  <2> QED
    BY <1>2, <2>1, <2>2, <2>3 DEF Least
<1> PICK e : e = export
  OBVIOUS
<1>4. e = [at |-> e.at, metrics |-> e.metrics, events |-> e.events,
           alerts |-> e.alerts, score |-> e.score]
  BY <1>2 DEF ExportInv
<1>5. export' = [at |-> "rest", metrics |-> e.metrics, events |-> listed,
                 alerts |-> e.alerts, score |-> e.score]
  BY <1>1, <1>3, <1>4
<1>6. e.metrics \in MetricFields /\ After(metrics, e.metrics) /\ metrics \in MetricFields
  BY <1>1, <1>2 DEF ExportInv, EventInv
<1>7. Len(listed) >= Least(Least(MaxEvents, ListLimit), e.metrics.total)
  <2>1. /\ metrics.total \in Nat /\ e.metrics.total \in Nat
        /\ e.metrics.total <= metrics.total
    BY <1>6 DEF After, MetricFields
  <2>2. Len(recent) = Least(MaxEvents, metrics.total + 0)
    BY <1>1, <1>2 DEF EventInv
  <2> QED
    BY <1>2, <1>3, <2>1, <2>2 DEF Least
<1>8. ExportInv'
  BY <1>1, <1>3, <1>5, <1>6, <1>7 DEF ExportInv, MetricFields, After, Least
<1>9. SnapshotInv'
  BY <1>1 DEF DashboardInv, SnapshotInv, Snapshots, MetricFields
<1> QED
  BY <1>1, <1>8, <1>9, EventsRest DEF DashboardInv

LEMMA ExportRestInv == ASSUME DashboardInv, ExportRest PROVE DashboardInv'
<1>1. /\ export.at = "rest"
      /\ export' = [export EXCEPT !.at = "done", !.alerts = Len(alerts),
                              !.score = SecurityScore(metrics)]
      /\ UNCHANGED <<metrics, recent, alerts, raised, current, snapshots>>
  BY DEF ExportRest
<1>2. ExportInv /\ metrics \in MetricFields
  BY DEF DashboardInv, EventInv
<1> PICK e : e = export
  OBVIOUS
<1>3. e = [at |-> e.at, metrics |-> e.metrics, events |-> e.events,
           alerts |-> e.alerts, score |-> e.score]
  BY <1>2 DEF ExportInv
<1>4. export' = [at |-> "done", metrics |-> e.metrics, events |-> e.events,
                 alerts |-> Len(alerts), score |-> SecurityScore(metrics)]
  BY <1>1, <1>3
<1>5. /\ e.metrics \in MetricFields /\ After(metrics, e.metrics)
      /\ Len(e.events) \in Nat /\ Len(e.events) >= Least(Least(MaxEvents, ListLimit), e.metrics.total)
  BY <1>1, <1>2 DEF ExportInv
<1>6. e.metrics.attempts = metrics.attempts =>
        SecurityScore(metrics) <= SecurityScore(e.metrics)
  BY <1>2, <1>5, ScoreFalls
<1>7. ExportInv'
  BY <1>1, <1>4, <1>5, <1>6 DEF ExportInv, MetricFields, After, Least
<1>8. SnapshotInv'
  BY <1>1 DEF DashboardInv, SnapshotInv, Snapshots, MetricFields
<1> QED
  BY <1>1, <1>7, <1>8, EventsRest DEF DashboardInv

LEMMA EndExportInv == ASSUME DashboardInv, EndExport PROVE DashboardInv'
<1>1. export' = NoExport /\ UNCHANGED <<metrics, recent, alerts, raised, current, snapshots>>
  BY DEF EndExport
<1>2. ExportInv'
  BY <1>1 DEF ExportInv, NoExport
<1>3. SnapshotInv'
  BY <1>1 DEF DashboardInv, SnapshotInv, Snapshots, MetricFields
<1> QED
  BY <1>1, <1>2, <1>3, EventsRest DEF DashboardInv

LEMMA DashboardStep == DashboardInv /\ [DashboardNext]_DashboardVars => DashboardInv'
<1> SUFFICES ASSUME DashboardInv, [DashboardNext]_DashboardVars PROVE DashboardInv'
  OBVIOUS
<1>1. CASE \E e \in AuditEvents : BeginEvent(e)
  BY <1>1, BeginEventInv
<1>2. CASE CountEvent
  BY <1>2, CountEventInv
<1>3. CASE RaiseAlerts
  BY <1>3, RaiseAlertsInv
<1>4. CASE UNCHANGED <<metrics, recent, raised, current, snapshots, export>>
  BY <1>4, EventsRest, RestKeeps DEF DashboardInv
<1>5. CASE \E i \in DOMAIN alerts : AcknowledgeAlert(i) \/ ResolveAlert(i)
  BY <1>4, <1>5 DEF AcknowledgeAlert, ResolveAlert
<1>6. CASE TakeSnapshot
  BY <1>6, TakeSnapshotInv
<1>7. CASE ExportMetrics
  BY <1>7, ExportMetricsInv
<1>8. CASE ExportEvents
  BY <1>8, ExportEventsInv
<1>9. CASE ExportRest
  BY <1>9, ExportRestInv
<1>10. CASE EndExport
  BY <1>10, EndExportInv
<1>11. CASE UNCHANGED DashboardVars
  BY <1>4, <1>11 DEF DashboardVars
<1> QED
  BY <1>1, <1>2, <1>3, <1>5, <1>6, <1>7, <1>8, <1>9, <1>10, <1>11 DEF DashboardNext

LEMMA DashboardInvGives == DashboardInv => DashboardAddsUp
<1> SUFFICES ASSUME DashboardInv PROVE DashboardAddsUp
  OBVIOUS
<1>1. EventInv /\ SnapshotInv /\ ExportInv /\ MaxEvents \in Nat
      /\ ListLimit \in Nat
  BY DashboardAssumption DEF DashboardInv
<1>2. ASSUME current.at = "idle" PROVE raised = Owed(metrics)
  BY <1>1, <1>2 DEF EventInv
<1>3. ASSUME export.at = "done", NEW format \in Formats,
             Report(export, format).shows # {}, format # "html"
      PROVE  Report(export, format).listed
               >= Min({MaxEvents, ListLimit, export.metrics.total})
  <2>1. export.metrics.total \in Nat /\ Len(export.events) \in Nat
        /\ Len(export.events) >= Least(Least(MaxEvents, ListLimit), export.metrics.total)
    BY <1>1, <1>3 DEF ExportInv, MetricFields
  <2>2. Min({MaxEvents, ListLimit, export.metrics.total})
          = Least(Least(MaxEvents, ListLimit), export.metrics.total)
    BY <1>1, <2>1, MinOfThree DEF Least
  <2>3. Report(export, format).listed = Len(export.events)
    <3>1. CASE format = "json"
      BY <3>1 DEF Report
    <3>2. CASE format = "csv"
      BY <3>2 DEF Report
    <3>3. CASE format = "xml"
      BY <3>3 DEF Report
    <3>4. format # "pdf"
      BY <1>3 DEF Report
    <3> QED
      BY <1>3, <3>1, <3>2, <3>3, <3>4 DEF Formats
  <2> QED
    BY <2>1, <2>2, <2>3
<1>4. ASSUME export.at = "done", export.metrics.attempts = metrics.attempts
      PROVE  export.score <= SecurityScore(export.metrics)
  BY <1>1, <1>4 DEF ExportInv
<1>5. \A i, j \in DOMAIN snapshots :
        i < j => snapshots[i].metrics.violations <= snapshots[j].metrics.violations
  BY <1>1 DEF SnapshotInv
<1> QED
  BY <1>2, <1>3, <1>4, <1>5 DEF DashboardAddsUp, Owed

LEMMA DashboardHolds == DashboardSpec => []DashboardInv
BY DashboardInitInv, DashboardStep, PTL DEF DashboardSpec

\* At every moment the alerts raised are those the counts call for, a report lists
\* what its totals count, and the snapshots go forward (security_dashboard.rs).
THEOREM DashboardStaysSound == DashboardSpec => []DashboardAddsUp
BY DashboardHolds, DashboardInvGives, PTL

-----------------------------------------------------------------------------
(* The types: each variable stays in its set, and what a run counts below the    *)
(* bound the model gives it.                                                     *)

LEMMA IntegrityTypes == IntegritySpec => []IntegrityTypeOK
<1> DEFINE TypesKept ==
      /\ IntegrityTypeOK
      /\ handler.at = "insert" => handler.hash \in DirTimes
<1>1. IntegrityInit => TypesKept
  <2> SUFFICES ASSUME IntegrityInit PROVE TypesKept
    OBVIOUS
  <2>1. 0 \in 0..LogLimit
    BY IntegrityAssumption
  <2>2. lapses \subseteq {"vanished", "restarted"} /\ registered = Unregistered
    BY DEF IntegrityInit
  <2>3. dir = 0 /\ events = 0 /\ handler.at = "idle" /\ odd \in BOOLEAN /\ mounted \in BOOLEAN
    BY DEF IntegrityInit, Idle
  <2> QED
    BY <2>1, <2>2, <2>3 DEF IntegrityTypeOK
<1>2. \A n \in 0..LogLimit : Logged(n) \in 0..LogLimit
  BY IntegrityAssumption DEF Logged
<1>3. TypesKept /\ [IntegrityNext]_IntegrityVars => TypesKept'
  <2> SUFFICES ASSUME TypesKept, [IntegrityNext]_IntegrityVars PROVE TypesKept'
    OBVIOUS
  <2> USE IntegrityAssumption DEF IntegrityTypeOK, Idle, Then
  <2>1. ASSUME NEW time \in DirTimes \cup {0}, NEW name \in BOOLEAN, TouchDir(time, name)
        PROVE  TypesKept'
    BY <2>1 DEF TouchDir
  <2>2. ASSUME NEW dry, NEW safe, HandlerValidates(dry, safe) PROVE TypesKept'
    BY <2>2 DEF HandlerValidates
  <2>3. CASE RegisterReads
    <3>1. lapses' \subseteq {"vanished", "restarted"}
      BY <2>3 DEF RegisterReads
    <3>2. handler'.at \in {"idle", "insert", "mount"}
          /\ (handler'.at = "insert" => handler'.hash \in DirTimes)
      BY <2>3 DEF RegisterReads
    <3> QED
      BY <2>3, <3>1, <3>2 DEF RegisterReads
  <2>4. CASE RegisterInserts
    BY <2>4, <1>2 DEF RegisterInserts
  <2>5. ASSUME NEW time \in DirTimes, NEW name \in BOOLEAN, HandlerMounts(time, name)
        PROVE  TypesKept'
    BY <2>5 DEF HandlerMounts
  <2>6. ASSUME NEW left \in BOOLEAN, HandlerFails(left) PROVE TypesKept'
    BY <2>6, IntegrityAssumption DEF HandlerFails
  <2>7. ASSUME NEW removed, UnmountDir(removed) PROVE TypesKept'
    BY <2>7 DEF UnmountDir
  <2>8. CASE RegistrationAges
    BY <2>8 DEF RegistrationAges, Unregistered
  <2>9. ASSUME NEW time \in DirTimes, NEW name \in BOOLEAN, RestartAndMount(time, name)
        PROVE  TypesKept'
    <3>1. lapses' \subseteq {"vanished", "restarted"} /\ registered' = Unregistered
      BY <2>9 DEF RestartAndMount
    <3>2. events' \in 0..LogLimit /\ handler'.at = "idle"
      BY <2>9 DEF RestartAndMount
    <3>3. dir' \in DirTimes \cup {0} /\ odd' \in BOOLEAN /\ mounted' \in BOOLEAN
      BY <2>9 DEF RestartAndMount
    <3> QED
      BY <3>1, <3>2, <3>3
  <2>10. ASSUME NEW late, LookAtMount(late) PROVE TypesKept'
    BY <2>10 DEF LookAtMount
  <2>11. CASE UNCHANGED IntegrityVars
    BY <2>11 DEF IntegrityVars
  <2> QED
    BY <2>1, <2>2, <2>3, <2>4, <2>5, <2>6, <2>7, <2>8, <2>9, <2>10, <2>11 DEF IntegrityNext
<1> QED
  BY <1>1, <1>3, PTL DEF IntegritySpec

LEMMA MemoryTypes == MemorySpec => []MemoryTypeOK
<1>1. MemoryInit => MemoryTypeOK /\ protector \in [Protecting -> {"none", "r", "x"}]
  BY DEF MemoryInit, MemoryTypeOK
<1>2. MemoryTypeOK /\ protector \in [Protecting -> {"none", "r", "x"}]
      /\ [MemoryNext]_MemoryVars
        => (MemoryTypeOK /\ protector \in [Protecting -> {"none", "r", "x"}])'
  BY DEF MemoryTypeOK, MemoryNext, MemoryVars, Protect, RecordProtection, SecureClear
<1> QED
  BY <1>1, <1>2, PTL DEF MemorySpec

LEMMA KeyTypes == KeySpec => []KeyTypeOK
<1>1. KeyInit => tunings \in 0..MaxTunings
  BY KeyAssumption DEF KeyInit
<1>2. tunings \in 0..MaxTunings /\ [KeyNext]_KeyVars => (tunings \in 0..MaxTunings)'
  BY KeyAssumption DEF KeyNext, KeyVars, AutoTune, AskAgain
<1>3. KeyInv /\ tunings \in 0..MaxTunings => KeyTypeOK
  BY DEF KeyInv, KeyTypeOK
<1> QED
  BY <1>1, <1>2, <1>3, KeyHolds, PTL DEF KeySpec

LEMMA SealedTypes == SealedSpec => []SealedTypeOK
<1>1. SealedInit => altered \subseteq Fields
  BY DEF SealedInit
<1>2. altered \subseteq Fields /\ [SealedNext]_SealedVars => (altered \subseteq Fields)'
  BY Zenon DEF SealedNext, SealedVars, SaveStore, Alter
<1>3. SealInv /\ altered \subseteq Fields => SealedTypeOK
  BY DEF SealInv, SealedTypeOK, SealedRecords
<1> QED
  BY <1>1, <1>2, <1>3, SealedHolds, PTL DEF SealedSpec

LEMMA SessionTypes == SessionSpec => []SessionTypeOK
<1> DEFINE Bounded ==
      /\ history \subseteq SecureMessages /\ overlapped \subseteq SecureMessages
      /\ \A s \in SecureSessions : sessions[s].is => sessions[s].count \in 0..(SessionRate + 1)
<1>1. SessionInit => Bounded
  BY DEF SessionInit, NoSession
<1>2. SessionInv /\ Bounded /\ [SessionNext]_SessionVars => Bounded'
  <2> SUFFICES ASSUME SessionInv, Bounded, [SessionNext]_SessionVars PROVE Bounded'
    OBVIOUS
  <2>0. SessionShape
    BY DEF SessionInv
  <2>1. ASSUME UNCHANGED <<history, overlapped, sessions>> PROVE Bounded'
    BY <2>1
  <2>2. ASSUME NEW m \in SecureMessages, NEW t \in Verifiers, BeginVerify(t, m)
        PROVE  Bounded'
    BY <2>2 DEF BeginVerify
  <2>3. ASSUME NEW t \in Verifiers, NoteMessage(t) PROVE Bounded'
    <3>1. verify[t].msg \in SecureMessages
      BY <2>0, <2>3, IdleNotVerifying DEF SessionShape, NoteMessage
    <3> QED
      BY <2>3, <3>1 DEF NoteMessage
  <2>4. ASSUME NEW s \in SecureSessions,
               \/ CreateSession(s) \/ UpdateActivity(s) \/ SessionIdles(s)
               \/ \E credentials \in BOOLEAN : AuthenticateSession(s, credentials)
        PROVE  Bounded'
    <3>1. /\ \A r \in SecureSessions \ {s} : sessions'[r] = sessions[r]
          /\ UNCHANGED <<history, overlapped>>
      BY <2>0, <2>4 DEF SessionShape, CreateSession, UpdateActivity, SessionIdles,
                        AuthenticateSession
    <3>2. CASE CreateSession(s)
      <4>1. sessions'[s].count = 0
        BY <2>0, <3>2 DEF SessionShape, CreateSession
      <4> QED
        BY <3>1, <4>1, SocketAssumption
    <3>3. CASE ~CreateSession(s)
      <4>1. PICK x : x = sessions[s]
        OBVIOUS
      <4>2. x.is /\ x \in [is: {TRUE}, auth: BOOLEAN, count: Nat, idle: BOOLEAN]
            /\ x.count \in 0..(SessionRate + 1)
        <5>1. x.is
          BY <2>4, <3>3, <4>1 DEF UpdateActivity, SessionIdles, AuthenticateSession
        <5>a. ~NoSession.is
          BY DEF NoSession
        <5>b. x # NoSession
          BY <5>1, <5>a, Zenon
        <5>2. x # NoSession /\ x \in {NoSession} \cup
                [is: {TRUE}, auth: BOOLEAN, count: Nat, idle: BOOLEAN]
          BY <2>0, <4>1, <5>b DEF SessionShape
        <5> QED
          BY <4>1, <5>1, <5>2
      <4>3. \/ sessions'[s].count = x.count
            \/ sessions'[s].count = IF x.count > SessionRate THEN x.count ELSE x.count + 1
        BY <2>0, <2>4, <3>3, <4>1, <4>2 DEF SessionShape, UpdateActivity, SessionIdles,
                                      AuthenticateSession
      <4>4. sessions'[s].count \in 0..(SessionRate + 1)
        BY <4>2, <4>3, SocketAssumption
      <4> QED
        BY <3>1, <4>4
    <3> QED
      BY <3>2, <3>3
  <2>5. CASE CleanSessions
    BY <2>5 DEF CleanSessions, NoSession
  <2> QED
    BY <2>1, <2>2, <2>3, <2>4, <2>5
       DEF SessionNext, SessionVars, MakeMessage, MessageAges, LookInHistory
<1>3. SessionInv /\ Bounded => SessionTypeOK
  BY IdleNotVerifying DEF SessionInv, SessionShape, SessionTypeOK
<1> QED
  BY <1>1, <1>2, <1>3, SessionHolds, PTL DEF SessionSpec

LEMMA SaveTypesHold == ConfigSecuritySpec => []ConfigSecurityTypeOK
<1> DEFINE Bounded == /\ records \in 0..HistoryLimit /\ cut \in BOOLEAN
                      /\ crowded \in BOOLEAN /\ due \in Valid \cup {Missing0}
<1>1. ConfigSecurityInit => Bounded
  <2>1. ConfigSecurityInit => cut \in BOOLEAN /\ crowded \in BOOLEAN
    BY Zenon DEF ConfigSecurityInit
  <2>2. ConfigSecurityInit => records = 0 /\ due = Missing0
    BY DEF ConfigSecurityInit
  <2> QED
    BY <2>1, <2>2, ConfigSecurityAssumption
<1>2. SaveInv /\ Bounded /\ [ConfigSecurityNext]_ConfigSecurityVars => Bounded'
  <2> SUFFICES ASSUME SaveInv, Bounded, [ConfigSecurityNext]_ConfigSecurityVars
               PROVE  Bounded'
    OBVIOUS
  <2>1. Record => records' \in 0..HistoryLimit
    BY ConfigSecurityAssumption DEF Record
  <2>2. ASSUME NEW s \in Savers, SaveRenames(s) PROVE Bounded'
    <3>1. save[s].data \in Valid
      BY <2>2 DEF SaveInv, SaveTypes, SaveRenames
    <3> QED
      BY <2>2, <3>1 DEF SaveRenames
  <2>3. ASSUME NEW s \in Savers, \E content \in Anything : SaveBegins(s, content)
        PROVE  Bounded'
    <3>1. crowded' \in BOOLEAN
      BY <2>3, Zenon DEF SaveBegins, Overlapping
    <3> QED
      BY <2>3, <3>1 DEF SaveBegins
  <2>4. ASSUME NEW s \in Savers,
               \/ SaveRefused(s) \/ SaveRestored(s) \/ SaveWritesTemporary(s) \/ SaveNotes(s)
        PROVE  Bounded'
    BY <2>1, <2>4 DEF SaveRefused, SaveRestored, SaveWritesTemporary, SaveNotes
  <2>5. CASE LoadSecured \/ NextSecond \/ UNCHANGED ConfigSecurityVars
    BY <2>1, <2>5 DEF LoadSecured, NextSecond, ConfigSecurityVars
  <2>6. ASSUME NEW given \in BOOLEAN, RollBack(given) \/ BackupFails PROVE Bounded'
    <3>1. crowded' \in BOOLEAN
      BY <2>6, Zenon DEF RollBack, BackupFails, Overlapping
    <3> QED
      BY <2>1, <2>6, <3>1 DEF RollBack, BackupFails
  <2>7. CASE SaverCrash
    <3>1. cut' \in BOOLEAN
      BY <2>7, Zenon DEF SaverCrash
    <3> QED
      BY <2>7, <3>1, ConfigSecurityAssumption DEF SaverCrash
  <2>8. ASSUME NEW s \in Savers, SaveFails(s) PROVE Bounded'
    <3>1. cut' \in BOOLEAN
      BY <2>8, Zenon DEF SaveFails
    <3> QED
      BY <2>8, <3>1 DEF SaveFails
  <2> QED
    BY <2>2, <2>3, <2>4, <2>5, <2>6, <2>7, <2>8 DEF ConfigSecurityNext
<1>3. SaveInv /\ Bounded => ConfigSecurityTypeOK
  BY DEF SaveInv, SaveTypes, SaveRecords, SaveStates, ConfigSecurityTypeOK
<1> QED
  BY <1>1, <1>2, <1>3, SaveHolds, PTL DEF ConfigSecuritySpec

\* A length or a body on its way is of a message that was sent.
FrameBounds ==
  /\ Len(sent) <= MaxFrames /\ slips \subseteq {"sender", "receiver", "limit"}
  /\ sending \in 0..Len(sent) /\ reading \in 0..Len(sent)
  /\ \A i \in 1..Len(stream) : stream[i].of \in 0..Len(sent)

LEMMA FrameBoundsStep ==
  ASSUME FrameInv, FrameBounds, [FrameNext]_FrameVars
  PROVE  FrameBounds'
<1>a. /\ stream \in Seq(Units) /\ sent \in Seq(BOOLEAN)
      /\ Len(stream) \in Nat /\ Len(sent) \in Nat
  BY DEF FrameInv
<1>b. \A n \in Nat : LengthOf(n) \in Units /\ Body(n) \in Units
                    /\ LengthOf(n).of = n /\ Body(n).of = n
  BY DEF LengthOf, Body, Units
<1>c. ASSUME NEW u \in Units, NEW n \in Nat, n >= Len(sent), u.of \in 0..n,
             stream' = Append(stream, u)
      PROVE  \A i \in 1..Len(stream') : stream'[i].of \in 0..n
  <2> SUFFICES ASSUME NEW i \in 1..Len(stream') PROVE stream'[i].of \in 0..n
    OBVIOUS
  <2>1. i \in 1..(Len(stream) + 1)
    BY <1>a, <1>c
  <2>2. CASE i = Len(stream) + 1
    BY <1>a, <1>c, <2>2
  <2>3. CASE i # Len(stream) + 1
    <3>1. i \in 1..Len(stream) /\ stream'[i] = stream[i]
      BY <1>a, <1>c, <2>1, <2>3
    <3> QED
      BY <1>a, <1>c, <3>1 DEF FrameBounds
  <2> QED
    BY <2>2, <2>3
<1>d. ASSUME stream # <<>>
      PROVE  /\ Head(stream).of \in 0..Len(sent)
             /\ \A i \in 1..Len(Tail(stream)) : Tail(stream)[i].of \in 0..Len(sent)
  <2>1. Head(stream) = stream[1] /\ 1 \in 1..Len(stream)
    BY <1>a, <1>d
  <2>2. \A i \in 1..Len(Tail(stream)) : Tail(stream)[i] = stream[i + 1]
                                       /\ i + 1 \in 1..Len(stream)
    BY <1>a, <1>d
  <2> QED
    BY <2>1, <2>2 DEF FrameBounds
<1>1. ASSUME NEW large \in BOOLEAN, SendLength(large) PROVE FrameBounds'
  <2>1. sent' = Append(sent, large) /\ Len(sent') = Len(sent) + 1 /\ Len(sent') <= MaxFrames
    BY <1>1, <1>a, SocketAssumption DEF SendLength
  <2>2. \A i \in 1..Len(stream') : stream'[i].of \in 0..Len(sent')
    <3>1. PICK n \in Nat : n = Len(sent) + 1
      BY <1>a
    <3>2. stream' = Append(stream, LengthOf(n))
      BY <1>1, <2>1, <3>1 DEF SendLength
    <3> QED
      BY <1>a, <1>b, <1>c, <2>1, <3>1, <3>2
  <2> QED
    BY <1>1, <1>a, <2>1, <2>2 DEF SendLength, FrameBounds
<1>2. CASE SendBody
  <2>1. sending \in Nat /\ sending \in 0..Len(sent)
    BY <1>a DEF FrameBounds
  <2>2. \A i \in 1..Len(stream') : stream'[i].of \in 0..Len(sent)
    BY <1>2, <1>a, <1>b, <1>c, <2>1 DEF SendBody
  <2> QED
    BY <1>2, <1>a, <2>2 DEF SendBody, FrameBounds
<1>3. CASE SendAbandoned \/ ReceiveAbandoned
  <2>1. \/ slips' = slips \cup {"sender"} /\ sending' = 0 /\ reading' = reading
        \/ slips' = slips \cup {"receiver"} /\ reading' = 0 /\ sending' = sending
    BY <1>3 DEF SendAbandoned, ReceiveAbandoned
  <2>2. stream' = stream /\ sent' = sent
    BY <1>3 DEF SendAbandoned, ReceiveAbandoned
  <2>3. slips' \subseteq {"sender", "receiver", "limit"}
    BY <2>1 DEF FrameBounds
  <2> QED
    BY <1>a, <2>1, <2>2, <2>3 DEF FrameBounds
<1>4. CASE ReceiveLength \/ ReceiveBody
  <2>1. stream # <<>> /\ stream' \in {stream, Tail(stream)} /\ sent' = sent /\ sending' = sending
    BY <1>4 DEF ReceiveLength, ReceiveBody
  <2>2. reading' \in {reading, Head(stream).of, 0}
    BY <1>4 DEF ReceiveLength, ReceiveBody
  <2>3. slips' = slips \/ slips' = slips \cup {"limit"}
    BY <1>4 DEF ReceiveLength, ReceiveBody
  <2>4. \A i \in 1..Len(stream') : stream'[i].of \in 0..Len(sent)
    BY <1>d, <2>1 DEF FrameBounds
  <2>5. reading' \in 0..Len(sent)
    BY <1>a, <1>d, <2>1, <2>2 DEF FrameBounds
  <2> QED
    BY <2>1, <2>3, <2>4, <2>5 DEF FrameBounds
<1>5. CASE UNCHANGED FrameVars
  BY <1>5 DEF FrameVars, FrameBounds
<1> QED
  BY <1>1, <1>2, <1>3, <1>4, <1>5 DEF FrameNext

LEMMA FrameTypesHold == FrameSpec => []FrameTypeOK
<1>1. FrameInit => FrameBounds
  BY SocketAssumption DEF FrameInit, FrameBounds
<1>2. FrameInv /\ FrameBounds => FrameTypeOK
  BY DEF FrameInv, FrameBounds, FrameTypeOK
<1> QED
  BY <1>1, <1>2, FrameBoundsStep, FrameHolds, PTL DEF FrameSpec

Working == {t \in HsmTasks : op[t] # AtRest}

\* Each call has one permit; what is stored is numbered by the stores.
HsmBounds ==
  /\ stored \in 0..MaxHsmStores /\ crossed \subseteq HsmIds
  /\ hsm \in [HsmIds -> 0..MaxHsmStores] /\ keyCache \in [HsmIds -> 0..MaxHsmStores]
  /\ \A t \in Working : op[t].value \in 0..MaxHsmStores
  /\ IsFiniteSet(Working) /\ Cardinality(Working) <= HsmPermits
  /\ permitsLeft = HsmPermits - Cardinality(Working)

\* A task moves on within its call.
LEMMA WorkGoesOn ==
  ASSUME HsmInv, HsmBounds, NEW t \in Working, NEW r \in [at: Step, id: HsmIds, value: Nat],
         op' = [op EXCEPT ![t] = r], r.value \in 0..MaxHsmStores
  PROVE  Working' = Working /\ \A u \in Working' : op'[u].value \in 0..MaxHsmStores
<1>1. op \in [HsmTasks -> {AtRest} \cup [at: Step, id: HsmIds, value: Nat]] /\ t \in HsmTasks
  BY DEF HsmInv, HsmShape, Working
<1>2. r # AtRest
  BY IdleAtRest DEF Step
<1>3. \A u \in HsmTasks : op'[u] = IF u = t THEN r ELSE op[u]
  BY <1>1
<1>4. \A u : u \in Working' <=> u \in Working
  BY <1>2, <1>3 DEF Working
<1> QED
  BY <1>3, <1>4 DEF HsmBounds, Working

\* A call returns its permit.
LEMMA WorkReturns ==
  ASSUME HsmInv, HsmBounds, NEW t \in Working, Return(t)
  PROVE  /\ \A u \in Working' : op'[u].value \in 0..MaxHsmStores
         /\ IsFiniteSet(Working') /\ Cardinality(Working') <= HsmPermits
         /\ permitsLeft' = HsmPermits - Cardinality(Working')
<1>1. op \in [HsmTasks -> {AtRest} \cup [at: Step, id: HsmIds, value: Nat]] /\ t \in HsmTasks
  BY DEF HsmInv, HsmShape, Working
<1>2. \A u \in HsmTasks : op'[u] = IF u = t THEN AtRest ELSE op[u]
  BY <1>1 DEF Return
<1>3. \A u : u \in Working' <=> u \in Working \ {t}
  BY <1>2 DEF Working
<1>4. Working' = Working \ {t}
  BY <1>3
<1>5. IsFiniteSet(Working') /\ Cardinality(Working') = Cardinality(Working) - 1
  BY <1>4, FS_RemoveElement DEF HsmBounds
<1>6. Cardinality(Working) \in Nat
  BY FS_CardinalityType DEF HsmBounds
<1> QED
  BY <1>2, <1>3, <1>5, <1>6, HsmAssumption DEF HsmBounds, Working, Return

LEMMA HsmBoundsStep ==
  ASSUME HsmInv, HsmBounds, [HsmNext]_HsmVars
  PROVE  HsmBounds'
<1>0. /\ op \in [HsmTasks -> {AtRest} \cup [at: Step, id: HsmIds, value: Nat]]
      /\ \A t \in Working : op[t] \in [at: Step, id: HsmIds, value: Nat] /\ t \in HsmTasks
      /\ \A t \in HsmTasks : op[t].at # "idle" => t \in Working
  BY IdleAtRest DEF HsmInv, HsmShape, Working
<1>c. Cardinality(Working) \in Nat
  BY FS_CardinalityType DEF HsmBounds
<1>1. ASSUME NEW t \in HsmTasks, NEW id \in HsmIds, NEW what \in {"store", "get", "rotating"},
             NEW valid \in BOOLEAN, Call(t, id, what, valid)
      PROVE  HsmBounds'
  <2>1. CASE what = "store" /\ ~valid
    <3>1. UNCHANGED <<hsm, keyCache, permitsLeft, op, stored, crossed>>
      BY <1>1, <2>1 DEF Call
    <3> QED
      BY <3>1 DEF HsmBounds, Working
  <2>2. CASE ~(what = "store" /\ ~valid)
    <3>1. stored' \in 0..MaxHsmStores
      BY <1>1, <2>2, HsmAssumption DEF Call, HsmBounds
    <3>2. PICK v \in 0..MaxHsmStores : op' = [op EXCEPT ![t] = [at |-> what, id |-> id, value |-> v]]
      BY <1>1, <2>2, <3>1, HsmAssumption DEF Call, None
    <3>3. permitsLeft' = permitsLeft - 1 /\ permitsLeft > 0 /\ t \notin Working
      BY <1>1, <2>2 DEF Call, Working
    <3>4. \A u \in HsmTasks : op'[u] = IF u = t THEN [at |-> what, id |-> id, value |-> v]
                                      ELSE op[u]
      BY <1>0, <3>2
    <3>5. [at |-> what, id |-> id, value |-> v] # AtRest
      BY IdleAtRest
    <3>6. \A u : u \in Working' <=> u \in Working \cup {t}
      BY <3>4, <3>5 DEF Working
    <3>7. Working' = Working \cup {t}
      BY <3>6
    <3>8. IsFiniteSet(Working') /\ Cardinality(Working') = Cardinality(Working) + 1
      BY <3>3, <3>7, FS_AddElement DEF HsmBounds
    <3>9. \A u \in Working' : op'[u].value \in 0..MaxHsmStores
      BY <3>4, <3>6 DEF HsmBounds, Working
    <3>10. crossed' \subseteq HsmIds
      <4>1. crossed' \in {crossed, crossed \cup {id}}
        BY <1>1, <2>2, Zenon DEF Call
      <4> QED
        BY <4>1 DEF HsmBounds
    <3>11. UNCHANGED <<hsm, keyCache>>
      BY <1>1 DEF Call
    <3>12. Cardinality(Working') <= HsmPermits /\ permitsLeft' = HsmPermits - Cardinality(Working')
      BY <1>c, <3>3, <3>8, HsmAssumption DEF HsmBounds
    <3> QED
      BY <3>1, <3>8, <3>9, <3>10, <3>11, <3>12 DEF HsmBounds
  <2> QED
    BY <2>1, <2>2
<1>2. ASSUME NEW t \in HsmTasks, CacheKey(t) \/ RotateCaches(t) \/ CallReturns(t)
      PROVE  HsmBounds'
  <2>1. t \in Working /\ Return(t)
    BY <1>0, <1>2 DEF CacheKey, RotateCaches, CallReturns
  <2>2. op[t].value \in 0..MaxHsmStores /\ UNCHANGED <<hsm, stored, crossed>>
    BY <1>2, <2>1 DEF HsmBounds, CacheKey, RotateCaches, CallReturns
  <2>3. keyCache' \in [HsmIds -> 0..MaxHsmStores]
    BY <1>2, <2>2 DEF HsmBounds, CacheKey, RotateCaches, CallReturns
  <2> QED
    BY <2>1, <2>2, <2>3, WorkReturns DEF HsmBounds
<1>3. ASSUME NEW t \in HsmTasks, StoreKey(t) \/ GetKey(t) \/ RotateReads(t) \/ RotateWrites(t)
      PROVE  HsmBounds'
  <2>1. t \in Working /\ UNCHANGED <<keyCache, permitsLeft, stored, crossed>>
    BY <1>0, <1>3 DEF StoreKey, GetKey, RotateReads, RotateWrites
  <2>2. op[t].value \in 0..MaxHsmStores /\ hsm[op[t].id] \in 0..MaxHsmStores
        /\ op[t].id \in HsmIds /\ 0..MaxHsmStores \subseteq Nat
    BY <1>0, <2>1, HsmAssumption DEF HsmBounds
  <2>3. PICK x \in [at: Step, id: HsmIds, value: Nat] :
          op' = [op EXCEPT ![t] = x] /\ x.value \in {op[t].value, hsm[op[t].id]}
    <3>1. PICK r : r = op[t]
      OBVIOUS
    <3>2. r \in [at: Step, id: HsmIds, value: Nat]
      BY <1>0, <2>1, <3>1
    <3>3. ASSUME NEW a \in Step
          PROVE  /\ [r EXCEPT !.at = a] \in [at: Step, id: HsmIds, value: Nat]
                 /\ [r EXCEPT !.at = a].value = r.value
      BY <3>2
    <3>4. ASSUME NEW a \in Step, NEW v \in Nat
          PROVE  /\ [r EXCEPT !.at = a, !.value = v] \in [at: Step, id: HsmIds, value: Nat]
                 /\ [r EXCEPT !.at = a, !.value = v].value = v
      BY <3>2
    <3>5. {"cache", "answered", "rotate", "recache"} \subseteq Step /\ hsm[r.id] \in Nat
      BY <2>2, <3>1 DEF Step
    <3>6. CASE StoreKey(t) \/ RotateWrites(t)
      <4>1. PICK a \in Step : op' = [op EXCEPT ![t] = [r EXCEPT !.at = a]]
        BY <3>1, <3>5, <3>6 DEF StoreKey, RotateWrites
      <4> QED
        BY <3>1, <3>3, <4>1
    <3>7. CASE GetKey(t) \/ RotateReads(t)
      <4>1. PICK a \in Step : op' = [op EXCEPT ![t] = [r EXCEPT !.at = a, !.value = hsm[r.id]]]
        BY <3>1, <3>5, <3>7 DEF GetKey, RotateReads
      <4> QED
        BY <3>1, <3>4, <3>5, <4>1
    <3> QED
      BY <1>3, <3>6, <3>7
  <2>4. Working' = Working /\ \A u \in Working' : op'[u].value \in 0..MaxHsmStores
    BY <2>1, <2>2, <2>3, WorkGoesOn
  <2>5. hsm' \in [HsmIds -> 0..MaxHsmStores]
    BY <1>3, <2>2 DEF HsmBounds, StoreKey, GetKey, RotateReads, RotateWrites
  <2> QED
    BY <2>1, <2>4, <2>5 DEF HsmBounds
<1>4. CASE ProviderRestarts
  <2>1. \A t : t \notin Working'
    BY <1>4 DEF ProviderRestarts, Working
  <2>2. Working' = {} /\ IsFiniteSet(Working') /\ Cardinality(Working') = 0
    BY <2>1, FS_EmptySet
  <2>3. permitsLeft' = HsmPermits /\ keyCache' \in [HsmIds -> 0..MaxHsmStores]
        /\ UNCHANGED <<hsm, stored, crossed>>
    BY <1>4, HsmAssumption DEF ProviderRestarts, Zero, None
  <2> QED
    BY <2>2, <2>3, HsmAssumption DEF HsmBounds
<1>5. CASE UNCHANGED HsmVars
  BY <1>5 DEF HsmVars, HsmBounds, Working
<1> QED
  BY <1>1, <1>2, <1>3, <1>4, <1>5 DEF HsmNext

LEMMA HsmTypesHold == HsmSpec => []HsmTypeOK
<1>1. HsmInit => HsmBounds
  <2> SUFFICES ASSUME HsmInit PROVE HsmBounds
    OBVIOUS
  <2>1. \A t : t \notin Working
    BY DEF HsmInit, Working
  <2>2. Working = {} /\ IsFiniteSet(Working) /\ Cardinality(Working) = 0
    BY <2>1, FS_EmptySet
  <2> QED
    BY <2>2, HsmAssumption DEF HsmInit, HsmBounds, Zero, None
<1>2. HsmBounds => HsmTypeOK
  BY FS_CardinalityType, HsmAssumption DEF HsmBounds, HsmTypeOK, Working
<1> QED
  BY <1>1, <1>2, HsmBoundsStep, HsmHolds, PTL DEF HsmSpec

\* The checks of a verification are counted down, and what the history has came of a
\* creation that was counted.
LeftFits(c) == c.left \in 0..4 /\ (c.at = "check" => c.left \in 1..4)
UpdatesBounds ==
  /\ staged \subseteq Packages /\ marker \in Packages \cup {NoPackage}
  /\ \A p \in Packages : creations[p] <= MaxCreations
  /\ \A m \in updated : m.creation >= 1
  /\ \A t \in UpdateTasks : LeftFits(calls[t])

LEMMA LeftMoves ==
  ASSUME UpdatesInv, UpdatesBounds, NEW t \in UpdateTasks, NEW phase \in Phases \ {"check"},
         \/ Returns(t) \/ GoesTo(t, phase) \/ \E p \in Packages : Begins(t, p, phase)
  PROVE  \A u \in UpdateTasks : LeftFits(calls'[u])
<1>1. calls \in [UpdateTasks -> CallRecords] /\ NoCall \in CallRecords /\ LeftFits(NoCall)
  BY DEF UpdatesInv, UpdatesShape, NoCall, CallRecords, Phases, LeftFits
<1>2. PICK c : c = calls[t]
  OBVIOUS
<1>3. c \in CallRecords /\ LeftFits(c)
  BY <1>1, <1>2 DEF UpdatesBounds
<1>4. PICK d : calls' = [calls EXCEPT ![t] = d] /\ LeftFits(d)
  <2>1. CASE Returns(t)
    BY <1>1, <2>1 DEF Returns
  <2>2. CASE GoesTo(t, phase)
    <3>1. calls' = [calls EXCEPT ![t] = [c EXCEPT !.at = phase]]
      BY <1>2, <2>2 DEF GoesTo
    <3>2. [c EXCEPT !.at = phase].at = phase /\ [c EXCEPT !.at = phase].left = c.left
      BY <1>3 DEF CallRecords
    <3> QED
      BY <1>3, <3>1, <3>2 DEF LeftFits
  <2>3. ASSUME NEW p \in Packages, Begins(t, p, phase)
        PROVE  \E d : calls' = [calls EXCEPT ![t] = d] /\ LeftFits(d)
    <3>1. PICK d : d = [NoCall EXCEPT !.at = phase, !.on = p]
      OBVIOUS
    <3>2. d.left = 0 /\ d.at = phase
      BY <3>1 DEF NoCall
    <3>3. calls' = [calls EXCEPT ![t] = d]
      BY <2>3, <3>1 DEF Begins
    <3>4. LeftFits(d)
      BY <3>2 DEF LeftFits
    <3> QED
      BY <3>3, <3>4
  <2> QED
    BY <2>1, <2>2, <2>3
<1>5. \A u \in UpdateTasks : calls'[u] = IF u = t THEN d ELSE calls[u]
  BY <1>1, <1>4
<1> QED
  BY <1>4, <1>5 DEF UpdatesBounds

LEMMA UpdatesBoundsStep ==
  ASSUME UpdatesInv, UpdatesBounds, [UpdatesNext]_UpdatesVars
  PROVE  UpdatesBounds'
<1>0. /\ Listed \subseteq Packages /\ calls \in [UpdateTasks -> CallRecords]
      /\ creations \in [Packages -> Nat] /\ \A p \in Listed : creations[p] >= 1
      /\ \A t \in UpdateTasks : calls[t].on \in Packages \cup {NoPackage}
  BY DEF UpdatesInv, UpdatesShape, CreationsCounted, CallRecords
<1>p. {"idle", "download", "mark", "check", "conclude", "backup", "install",
       "complete", "move", "rollback", "fail"} \subseteq Phases
  BY DEF Phases
<1>1. ASSUME NEW p \in Packages, CreatePackage(p) PROVE UpdatesBounds'
  <2>1. UNCHANGED <<updated, staged, marker, calls>> /\ creations[p] < MaxCreations
        /\ creations' = [creations EXCEPT ![p] = @ + 1]
    BY <1>1 DEF CreatePackage
  <2>2. \A q \in Packages : creations'[q] <= MaxCreations
    BY <1>0, <2>1, UpdatesAssumption DEF UpdatesBounds
  <2> QED
    BY <2>1, <2>2 DEF UpdatesBounds
<1>2. ASSUME NEW p \in Packages, CancelUpdate(p) \/ CleanupOldUpdates(p) PROVE UpdatesBounds'
  <2>1. UNCHANGED <<updated, marker, calls, creations>> /\ staged' \subseteq staged
    BY <1>2 DEF CancelUpdate, CleanupOldUpdates
  <2> QED
    BY <2>1 DEF UpdatesBounds
<1>3. ASSUME NEW t \in UpdateTasks, NEW p \in Packages,
             StartDownload(t, p) \/ StartVerify(t, p) \/ StartInstall(t, p)
      PROVE  UpdatesBounds'
  <2>1. PICK phase \in Phases \ {"check"} : Begins(t, p, phase)
    BY <1>3, <1>p DEF StartDownload, StartVerify, StartInstall
  <2>2. UNCHANGED <<updated, staged, marker, creations>>
    BY <1>3 DEF StartDownload, StartVerify, StartInstall
  <2> QED
    BY <2>1, <2>2, LeftMoves DEF UpdatesBounds
<1>4. ASSUME NEW t \in UpdateTasks, Downloaded(t) PROVE UpdatesBounds'
  <2>1. Returns(t) /\ staged' = staged \cup {calls[t].on} /\ calls[t].at = "download"
        /\ UNCHANGED <<updated, marker, creations>>
    BY <1>4 DEF Downloaded
  <2>2. calls[t].on \in Packages
    BY <1>0, <2>1 DEF UpdatesInv, DownloadsListed
  <2> QED
    BY <1>p, <2>1, <2>2, LeftMoves DEF UpdatesBounds
<1>5. ASSUME NEW t \in UpdateTasks, DownloadFails(t) \/ ConcludeVerify(t) \/ InstallFails(t)
      PROVE  UpdatesBounds'
  <2>1. Returns(t) /\ UNCHANGED <<updated, staged, marker, creations>>
    BY <1>5 DEF DownloadFails, ConcludeVerify, InstallFails
  <2> QED
    BY <1>p, <2>1, LeftMoves DEF UpdatesBounds
<1>6. ASSUME NEW t \in UpdateTasks, MarkVerifying(t) \/ \E passed \in BOOLEAN : Check(t, passed)
      PROVE  UpdatesBounds'
  <2>1. UNCHANGED <<updated, staged, marker, creations>>
    BY <1>6 DEF MarkVerifying, Check
  <2>2. PICK c : c = calls[t]
    OBVIOUS
  <2>3. c \in CallRecords /\ LeftFits(c)
    BY <1>0, <2>2 DEF UpdatesBounds
  <2>4. \/ Returns(t)
        \/ \E d : calls' = [calls EXCEPT ![t] = d] /\ LeftFits(d)
    <3>1. CASE MarkVerifying(t)
      <4>1. PICK d : d = [c EXCEPT !.at = "check", !.left = 4]
        OBVIOUS
      <4>2. d.left = 4
        BY <2>3, <4>1 DEF CallRecords
      <4>3. calls' = [calls EXCEPT ![t] = d]
        BY <2>2, <3>1, <4>1 DEF MarkVerifying
      <4>4. LeftFits(d)
        BY <4>2 DEF LeftFits
      <4> QED
        BY <4>3, <4>4
    <3>2. ASSUME NEW passed \in BOOLEAN, Check(t, passed)
          PROVE  Returns(t) \/ \E d : calls' = [calls EXCEPT ![t] = d] /\ LeftFits(d)
      <4>1. PICK d :
              /\ d = [c EXCEPT !.left = @ - 1, !.at = IF c.left = 1 THEN "conclude" ELSE @,
                               !.valid = @ /\ passed /\ (NeedsFile(c.left) => c.on \in staged)]
              /\ Returns(t) \/ calls' = [calls EXCEPT ![t] = d]
        <5>1. PICK d :
              d = [c EXCEPT !.left = @ - 1, !.at = IF c.left = 1 THEN "conclude" ELSE @,
                            !.valid = @ /\ passed /\ (NeedsFile(c.left) => c.on \in staged)]
          OBVIOUS
        <5> QED
          BY <2>2, <3>2, <5>1, Zenon DEF Check
      <4>2. d.left = c.left - 1 /\ d.at = IF c.left = 1 THEN "conclude" ELSE c.at
        BY <2>3, <4>1 DEF CallRecords
      <4>3. c.at = "check"
        BY <2>2, <3>2 DEF Check
      <4>4. LeftFits(d)
        BY <2>3, <4>1, <4>2, <4>3 DEF LeftFits
      <4> QED
        BY <4>1, <4>4
    <3> QED
      BY <1>6, <3>1, <3>2
  <2>5. \A u \in UpdateTasks : LeftFits(calls'[u])
    <3>1. CASE Returns(t)
      BY <1>p, <3>1, LeftMoves
    <3>2. ASSUME NEW d, calls' = [calls EXCEPT ![t] = d], LeftFits(d)
          PROVE  \A u \in UpdateTasks : LeftFits(calls'[u])
      <4>1. \A u \in UpdateTasks : calls'[u] = IF u = t THEN d ELSE calls[u]
        BY <1>0, <3>2
      <4> QED
        BY <3>2, <4>1 DEF UpdatesBounds
    <3> QED
      BY <2>4, <3>1, <3>2
  <2> QED
    BY <2>1, <2>5 DEF UpdatesBounds
<1>7. ASSUME NEW t \in UpdateTasks,
             MakeBackup(t) \/ PerformInstallation(t) \/ CompleteInstall(t) \/ AutoRollback(t)
      PROVE  UpdatesBounds'
  <2>1. Returns(t) \/ \E phase \in Phases \ {"check"} : GoesTo(t, phase)
    BY <1>7, <1>p DEF MakeBackup, PerformInstallation, CompleteInstall, AutoRollback
  <2>2. marker' \in {marker, calls[t].on, NoPackage} /\ UNCHANGED <<updated, staged, creations>>
    BY <1>7 DEF MakeBackup, PerformInstallation, CompleteInstall, AutoRollback
  <2>3. \A u \in UpdateTasks : LeftFits(calls'[u])
    BY <1>p, <2>1, LeftMoves
  <2> QED
    BY <1>0, <2>2, <2>3 DEF UpdatesBounds
<1>8. ASSUME NEW t \in UpdateTasks, MoveToHistory(t) PROVE UpdatesBounds'
  <2>1. Returns(t) /\ UNCHANGED <<staged, marker, creations>>
    BY <1>8 DEF MoveToHistory
  <2>2. updated' = updated \/ (calls[t].on \in Listed /\ updated' = ToHistory(calls[t].on))
    BY <1>8 DEF MoveToHistory
  <2>3. \A m \in updated' : m.creation >= 1
    BY <1>0, <2>2 DEF ToHistory, UpdatesBounds
  <2> QED
    BY <1>p, <2>1, <2>3, LeftMoves DEF UpdatesBounds
<1>9. CASE RollbackUpdate \/ UNCHANGED UpdatesVars
  BY <1>9 DEF RollbackUpdate, UpdatesVars, UpdatesBounds
<1> QED
  BY <1>1, <1>2, <1>3, <1>4, <1>5, <1>6, <1>7, <1>8, <1>9 DEF UpdatesNext

LEMMA UpdatesTypesHold == UpdatesSpec => []UpdatesTypeOK
<1>1. UpdatesInit => UpdatesBounds
  BY UpdatesAssumption DEF UpdatesInit, UpdatesBounds, NoCall, LeftFits
<1>2. UpdatesInv /\ UpdatesBounds => UpdatesTypeOK
  <2> SUFFICES ASSUME UpdatesInv, UpdatesBounds PROVE UpdatesTypeOK
    OBVIOUS
  <2>1. updated \subseteq [package: Packages, creation: 1..MaxCreations,
                           path: BOOLEAN, renewed: BOOLEAN]
    <3> SUFFICES ASSUME NEW m \in updated
                 PROVE  m \in [package: Packages, creation: 1..MaxCreations,
                               path: BOOLEAN, renewed: BOOLEAN]
      OBVIOUS
    <3>1. m \in Moved /\ m.creation <= creations[m.package] /\ m.creation >= 1
      BY DEF UpdatesInv, UpdatesShape, CreationsCounted, UpdatesBounds
    <3>2. m.creation \in 1..MaxCreations
      BY <3>1, UpdatesAssumption DEF UpdatesInv, UpdatesShape, UpdatesBounds, Moved
    <3> QED
      BY <3>1, <3>2 DEF Moved
  <2>2. calls \in [UpdateTasks -> [at: Phases, on: Packages \cup {NoPackage},
                                   valid: BOOLEAN, left: 0..4]]
    BY DEF UpdatesInv, UpdatesShape, UpdatesBounds, CallRecords, LeftFits
  <2>3. creations \in [Packages -> 0..MaxCreations]
    BY UpdatesAssumption DEF UpdatesInv, UpdatesShape, UpdatesBounds
  <2> QED
    BY <2>1, <2>2, <2>3 DEF UpdatesInv, UpdatesShape, UpdatesBounds, UpdatesTypeOK, Listed
<1> QED
  BY <1>1, <1>2, UpdatesBoundsStep, UpdatesHold, PTL DEF UpdatesSpec

LEMMA RoundTypesHold == RoundSpec => []RoundTypeOK
<1>1. RoundInv => RoundTypeOK
  <2> SUFFICES ASSUME RoundInv PROVE RoundTypeOK
    OBVIOUS
  <2>1. RoundTypes /\ checker.kept \in 0..Len(checker.found)
    BY CheckerFields DEF RoundInv, RoundRuns
  <2>2. \A i \in DOMAIN checker.found : checker.found[i].kind \in Looks
    <3>1. \A i \in DOMAIN checker.found : checker.found[i] \in Findings
      BY CheckerFields
    <3> QED
      BY <3>1 DEF Findings
  <2>3. \A b \in {baseline, updater} : b \in BaselineRecords
    BY <2>1 DEF RoundTypes
  <2> QED
    BY <2>1, <2>2, <2>3 DEF RoundTypes, RoundTypeOK, BaselineRecords, HashOrNone
<1> QED
  BY <1>1, RoundHolds, PTL

\* An event that is being counted is still to come in the total, and each event raises
\* one alert at most.
DashboardBounds ==
  /\ metrics.total <= MaxProcessed
  /\ current.at = "count" => metrics.total < MaxProcessed
  /\ raised \in Nat
  /\ raised + (IF current.at = "alert" THEN 1 ELSE 0) <= metrics.total
  /\ Len(snapshots) <= MaxSnapshots
  /\ export.at \in {"idle", "events", "rest", "done"}

LEMMA DashboardBoundsStep ==
  ASSUME DashboardInv, DashboardBounds, [DashboardNext]_DashboardVars
  PROVE  DashboardBounds'
<1>0. /\ metrics \in MetricFields /\ metrics.total \in Nat
      /\ MaxProcessed \in Nat /\ MaxSnapshots \in Nat
      /\ snapshots \in Seq(Snapshots)
      /\ current.at \in {"idle", "count", "alert"}
  BY DashboardAssumption DEF DashboardInv, EventInv, SnapshotInv, MetricFields
<1>1. ASSUME NEW e \in AuditEvents, BeginEvent(e) PROVE DashboardBounds'
  <2>1. /\ current.at = "idle" /\ metrics.total < MaxProcessed /\ current'.at = "count"
        /\ UNCHANGED <<metrics, raised, snapshots, export>>
    BY <1>1 DEF BeginEvent
  <2> QED
    BY <2>1 DEF DashboardBounds
<1>2. CASE CountEvent
  <2>1. /\ current.at = "count" /\ metrics' = Counted(metrics, current.event)
        /\ current' = [current EXCEPT !.at = "alert"]
        /\ UNCHANGED <<raised, snapshots, export>>
    BY <1>2 DEF CountEvent
  <2>2. current'.at = "alert" /\ current.event \in AuditEvents
    <3>1. current = [at |-> current.at, event |-> current.event] /\ current.event \in AuditEvents
      BY <2>1 DEF DashboardInv, EventInv
    <3> QED
      BY <2>1, <3>1
  <2>3. metrics'.total = metrics.total + 1
    BY <1>0, <2>1, <2>2, CountedOf
  <2> QED
    BY <1>0, <2>1, <2>2, <2>3 DEF DashboardBounds
<1>3. CASE RaiseAlerts
  <2>1. /\ current.at = "alert" /\ current'.at = "idle"
        /\ raised' = raised + Len(AlertsOf(current.event))
        /\ UNCHANGED <<metrics, snapshots, export>>
    BY <1>3 DEF RaiseAlerts
  <2>2. Len(AlertsOf(current.event)) = 0 \/ Len(AlertsOf(current.event)) = 1
    BY DEF AlertsOf
  <2>3. raised' = raised \/ raised' = raised + 1
    <3>1. raised \in Nat
      BY DEF DashboardBounds
    <3>2. CASE Len(AlertsOf(current.event)) = 0
      BY <2>1, <3>1, <3>2
    <3>3. CASE Len(AlertsOf(current.event)) = 1
      BY <2>1, <3>1, <3>3
    <3> QED
      BY <2>2, <3>2, <3>3
  <2>4. raised \in Nat /\ raised + 1 <= metrics.total
    BY <2>1 DEF DashboardBounds
  <2> QED
    BY <1>0, <2>1, <2>3, <2>4 DEF DashboardBounds
<1>4. CASE UNCHANGED <<metrics, raised, current, snapshots, export>>
  BY <1>4 DEF DashboardBounds
<1>5. CASE \E i \in DOMAIN alerts : AcknowledgeAlert(i) \/ ResolveAlert(i)
  BY <1>4, <1>5 DEF AcknowledgeAlert, ResolveAlert
<1>6. CASE TakeSnapshot
  <2>1. PICK n \in 0..MaxSnapshots :
          snapshots' = Newest(Append(snapshots, [metrics |-> metrics,
                                score |-> SecurityScore(metrics), alerts |-> 0]), n)
    BY <1>6 DEF TakeSnapshot
  <2>2. UNCHANGED <<metrics, raised, current, export>>
    BY <1>6 DEF TakeSnapshot
  <2> PICK r : r = [metrics |-> metrics, score |-> SecurityScore(metrics), alerts |-> 0]
    OBVIOUS
  <2>3. r \in Snapshots
    BY <1>0 DEF Snapshots, SecurityScore
  <2> PICK s : s = Append(snapshots, r)
    OBVIOUS
  <2>4. s \in Seq(Snapshots) /\ Len(s) \in Nat /\ n \in Nat /\ n <= MaxSnapshots
    BY <1>0, <2>3
  <2>5. Len(Newest(s, n)) = IF Len(s) <= n THEN Len(s) ELSE n
    BY <2>4, NewestOf
  <2>6. Len(snapshots') <= MaxSnapshots
    BY <1>0, <2>1, <2>4, <2>5
  <2> QED
    BY <2>2, <2>6 DEF DashboardBounds
<1>7. CASE ExportMetrics \/ ExportEvents \/ ExportRest \/ EndExport
  <2>1. UNCHANGED <<metrics, raised, current, snapshots>>
    BY <1>7 DEF ExportMetrics, ExportEvents, ExportRest, EndExport
  <2>2. export'.at \in {"idle", "events", "rest", "done"}
    <3> PICK x : x = export
      OBVIOUS
    <3>1. x = [at |-> x.at, metrics |-> x.metrics, events |-> x.events,
               alerts |-> x.alerts, score |-> x.score]
      BY DEF DashboardInv, ExportInv
    <3>2. CASE ExportMetrics
      BY <3>2 DEF ExportMetrics, NoExport
    <3>3. CASE ExportEvents
      BY <3>1, <3>3 DEF ExportEvents
    <3>4. CASE ExportRest
      BY <3>1, <3>4 DEF ExportRest
    <3>5. CASE EndExport
      BY <3>5 DEF EndExport, NoExport
    <3> QED
      BY <1>7, <3>2, <3>3, <3>4, <3>5
  <2> QED
    BY <2>1, <2>2 DEF DashboardBounds
<1>8. CASE UNCHANGED DashboardVars
  BY <1>4, <1>8 DEF DashboardVars
<1> QED
  BY <1>1, <1>2, <1>3, <1>5, <1>6, <1>7, <1>8 DEF DashboardNext

LEMMA DashboardTypesHold == DashboardSpec => []DashboardTypeOK
<1>1. DashboardInit => DashboardBounds
  BY DashboardAssumption DEF DashboardInit, DashboardBounds, NoMetrics, NoExport
<1>2. DashboardInv /\ DashboardBounds /\ [DashboardNext]_DashboardVars => DashboardBounds'
  BY DashboardBoundsStep
<1>3. DashboardInv /\ DashboardBounds => DashboardTypeOK
  <2> SUFFICES ASSUME DashboardInv, DashboardBounds PROVE DashboardTypeOK
    OBVIOUS
  <2>1. EventInv /\ MaxEvents \in Nat /\ metrics \in MetricFields /\ metrics.total \in Nat
        /\ MaxProcessed \in Nat
    BY DashboardAssumption DEF DashboardInv, EventInv, MetricFields
  <2>2. DOMAIN metrics = DOMAIN NoMetrics
    BY <2>1 DEF MetricFields, NoMetrics
  <2>3. recent \in Seq({Enriched(e) : e \in AuditEvents})
    BY <2>1 DEF EventInv, Kept
  <2>4. \A i \in DOMAIN recent : recent[i] \in {Enriched(e) : e \in AuditEvents}
    BY <2>3
  <2>5. Len(recent) <= MaxEvents
    BY <2>1 DEF EventInv, Least
  <2>6. current.at \in {"idle", "count", "alert"}
    BY <2>1 DEF EventInv
  <2>7. metrics.total \in 0..MaxProcessed /\ raised \in 0..MaxProcessed
    BY <2>1 DEF DashboardBounds
  <2> QED
    BY <2>2, <2>4, <2>5, <2>6, <2>7 DEF DashboardTypeOK, DashboardBounds
<1> QED
  BY <1>1, <1>2, <1>3, DashboardHolds, PTL DEF DashboardSpec

\* A call under way, whatever updates overlap: which credential it writes, and the
\* inode of its handle, none before it opened the temporary file.
CallSized(r) ==
  \/ r = NotCalling
  \/ /\ r = [at |-> r.at, id |-> r.id, op |-> r.op, by |-> r.by, filed |-> r.filed,
             map |-> r.map, fd |-> r.fd, value |-> r.value]
     /\ r.at \in FileSteps \cup {"keyring", "done", "failed"}
     /\ r.id \in CredentialIds /\ r.value \in 0..MaxStored /\ r.fd \in Inodes \cup {0}
     /\ r.at \in {"load", "open"} => r.fd = 0

CallsBegun == {t \in CredTasks : call[t] # NotCalling}

\* Each call under way was counted, so that an inode is left for the temporary file.
CredentialBounds ==
  /\ writesMade \in 0..MaxStored /\ keyringUp \in BOOLEAN
  /\ named \in [main: Inodes \cup {0}, tmp: Inodes \cup {0}]
  /\ keyring \in [CredentialIds -> 0..MaxStored]
  /\ call = [t \in CredTasks |-> call[t]] /\ \A t \in CredTasks : CallSized(call[t])
  /\ IsFiniteSet(CallsBegun) /\ Cardinality(CallsBegun) <= writesMade

LEMMA CallAt ==
  ASSUME NEW r, CallSized(r)
  PROVE  r.at = "idle" <=> r = NotCalling
BY DEF CallSized, NotCalling, FileSteps

LEMMA InodeIsLeft ==
  ASSUME CredentialBounds, NEW t \in CredTasks, call[t].at = "open", named.tmp = 0
  PROVE  \E i \in Inodes : /\ i \notin {named.main, named.tmp}
                           /\ \A u \in CredTasks : Updating(u) => call[u].fd # i
<1> DEFINE others == CallsBegun \ {t}
           taken == {call[u].fd : u \in others}
           f == [u \in others |-> call[u].fd]
<1>0. MaxStored \in Nat /\ writesMade \in 0..MaxStored /\ Inodes = 1..(MaxStored + 1)
  BY CredentialAssumption DEF CredentialBounds, Inodes
<1>1. t \in CallsBegun /\ call[t].fd = 0
  <2>1. CallSized(call[t]) /\ call[t] # NotCalling
    BY CallAt DEF CredentialBounds
  <2> QED
    BY <2>1 DEF CallSized, CallsBegun
<1>2. IsFiniteSet(others) /\ Cardinality(others) = Cardinality(CallsBegun) - 1
      /\ Cardinality(CallsBegun) \in Nat /\ Cardinality(CallsBegun) <= writesMade
  BY <1>1, FS_RemoveElement, FS_CardinalityType DEF CredentialBounds
<1>3. f \in Surjection(others, taken)
  BY DEF Surjection
<1>4. IsFiniteSet(taken) /\ Cardinality(taken) <= Cardinality(others)
  <2> HIDE DEF f, taken, others
  <2> QED
    BY <1>2, <1>3, FS_Surjection
<1>5. IsFiniteSet(taken \cup {named.main}) /\ Cardinality(taken) \in Nat
      /\ Cardinality(taken \cup {named.main}) <= Cardinality(taken) + 1
      /\ Cardinality(taken \cup {named.main}) \in Nat
  <2> HIDE DEF taken
  <2>1. IsFiniteSet(taken \cup {named.main}) /\ Cardinality(taken) \in Nat
        /\ Cardinality(taken \cup {named.main}) =
             IF named.main \in taken THEN Cardinality(taken) ELSE Cardinality(taken) + 1
    BY <1>4, FS_AddElement, FS_CardinalityType
  <2> QED
    BY <2>1
<1>6. IsFiniteSet(Inodes) /\ Cardinality(Inodes) = MaxStored + 1
  <2>1. 1 \in Int /\ MaxStored + 1 \in Int /\ ~(1 > MaxStored + 1)
    BY <1>0
  <2>2. /\ IsFiniteSet(1..(MaxStored + 1))
        /\ Cardinality(1..(MaxStored + 1)) =
             IF 1 > MaxStored + 1 THEN 0 ELSE (MaxStored + 1) - 1 + 1
    BY <2>1, FS_Interval
  <2> QED
    BY <1>0, <2>2
<1>7. ~(Inodes \subseteq taken \cup {named.main})
  <2> SUFFICES ASSUME Inodes \subseteq taken \cup {named.main} PROVE FALSE
    OBVIOUS
  <2> HIDE DEF taken, others
  <2>1. Cardinality(Inodes) <= Cardinality(taken \cup {named.main})
    <3>1. Inodes \in SUBSET (taken \cup {named.main})
      OBVIOUS
    <3> QED
      BY <1>5, <3>1, FS_Subset
  <2>2. Cardinality(taken) <= MaxStored - 1
    BY <1>0, <1>2, <1>4, <1>5
  <2> QED
    BY <1>0, <1>5, <1>6, <2>1, <2>2
<1>8. PICK i \in Inodes : i \notin taken /\ i # named.main
  BY <1>7
<1>9. i # 0
  BY <1>0
<1>10. ASSUME NEW u \in CredTasks, Updating(u) PROVE call[u].fd # i
  <2>1. CallSized(call[u]) /\ call[u].at # "idle"
    BY <1>10 DEF CredentialBounds, Updating, FileSteps
  <2>2. u \in CallsBegun
    BY <2>1, CallAt DEF CallsBegun
  <2>3. CASE u = t
    BY <1>1, <1>9, <2>3
  <2>4. CASE u # t
    BY <1>8, <2>2, <2>4
  <2> QED
    BY <2>3, <2>4
<1> QED
  BY <1>8, <1>9, <1>10

\* A step of a call that is under way begins none.
LEMMA CallGoesOn ==
  ASSUME CredentialBounds, NEW t \in CredTasks, call[t] # NotCalling, NEW r, CallSized(r),
         call' = [call EXCEPT ![t] = r]
  PROVE  /\ call' = [u \in CredTasks |-> call'[u]] /\ \A u \in CredTasks : CallSized(call'[u])
         /\ IsFiniteSet(CallsBegun') /\ Cardinality(CallsBegun') <= Cardinality(CallsBegun)
<1>1. call = [u \in CredTasks |-> call[u]] /\ \A u \in CredTasks : CallSized(call[u])
  BY DEF CredentialBounds
<1>2. \A u \in CredTasks : call'[u] = IF u = t THEN r ELSE call[u]
  BY <1>1
<1>3. CallsBegun' \in SUBSET CallsBegun
  BY <1>2 DEF CallsBegun
<1>4. IsFiniteSet(CallsBegun') /\ Cardinality(CallsBegun') <= Cardinality(CallsBegun)
  BY <1>3, FS_Subset DEF CredentialBounds
<1> QED
  BY <1>1, <1>2, <1>4

LEMMA CallStays ==
  ASSUME CredentialBounds, UNCHANGED call
  PROVE  /\ call' = [u \in CredTasks |-> call'[u]] /\ \A u \in CredTasks : CallSized(call'[u])
         /\ IsFiniteSet(CallsBegun') /\ Cardinality(CallsBegun') <= Cardinality(CallsBegun)
<1>1. CallsBegun' = CallsBegun
  BY DEF CallsBegun
<1>2. Cardinality(CallsBegun') <= Cardinality(CallsBegun)
  <2>1. Cardinality(CallsBegun) \in Nat
    BY FS_CardinalityType DEF CredentialBounds
  <2> QED
    BY <1>1, <2>1
<1> QED
  BY <1>1, <1>2 DEF CredentialBounds

\* What remains to be shown of a step that begins no call.
LEMMA BoundsKept ==
  ASSUME CredentialBounds, writesMade' = writesMade,
         call' = [u \in CredTasks |-> call'[u]], \A u \in CredTasks : CallSized(call'[u]),
         IsFiniteSet(CallsBegun'), Cardinality(CallsBegun') <= Cardinality(CallsBegun),
         named' \in [main: Inodes \cup {0}, tmp: Inodes \cup {0}],
         keyring' \in [CredentialIds -> 0..MaxStored], keyringUp' \in BOOLEAN
  PROVE  CredentialBounds'
<1>1. \A u \in CredTasks : CallSized(call[u])'
  BY DEF CallSized, FileSteps, NotCalling, Inodes
<1>2. /\ Cardinality(CallsBegun) \in Nat /\ Cardinality(CallsBegun') \in Nat
      /\ Cardinality(CallsBegun) <= writesMade /\ writesMade \in 0..MaxStored
  BY FS_CardinalityType DEF CredentialBounds
<1>3. Cardinality(CallsBegun)' <= writesMade' /\ writesMade' \in 0..MaxStored
  BY <1>2
<1> QED
  BY <1>1, <1>3 DEF CredentialBounds, Inodes

LEMMA CredentialBoundsStep ==
  ASSUME CredentialBounds, [CredentialNext]_CredentialVars
  PROVE  CredentialBounds'
<1>0. /\ MaxStored \in Nat /\ writesMade \in 0..MaxStored
      /\ named \in [main: Inodes \cup {0}, tmp: Inodes \cup {0}]
      /\ keyring \in [CredentialIds -> 0..MaxStored] /\ keyringUp \in BOOLEAN
      /\ call = [t \in CredTasks |-> call[t]] /\ \A t \in CredTasks : CallSized(call[t])
  BY CredentialAssumption DEF CredentialBounds
<1>1. ASSUME NEW t \in CredTasks, NEW id \in CredentialIds, NEW what \in {"store", "delete"},
             NEW c \in KeyConfigs, Begin(t, id, what, c)
      PROVE  CredentialBounds'
  <2> PICK r : r = [at |-> "load", id |-> id, op |-> what, by |-> c, filed |-> FALSE,
                    map |-> Empty, fd |-> 0,
                    value |-> IF what = "store" THEN writesMade' ELSE Nothing]
    OBVIOUS
  <2>1. /\ call[t] = NotCalling /\ writesMade < MaxStored /\ writesMade' = writesMade + 1
        /\ call' = [call EXCEPT ![t] = r] /\ UNCHANGED <<named, keyring, keyringUp>>
    BY <1>1 DEF Begin
  <2>2. CallSized(r) /\ r # NotCalling
    <3>1. r.at = "load" /\ r.fd = 0 /\ r.id = id /\ r.value \in 0..MaxStored
      BY <1>0, <2>1 DEF Nothing
    <3>2. r = [at |-> r.at, id |-> r.id, op |-> r.op, by |-> r.by, filed |-> r.filed,
               map |-> r.map, fd |-> r.fd, value |-> r.value]
      OBVIOUS
    <3>3. r.at # NotCalling.at
      BY <3>1 DEF NotCalling
    <3> QED
      BY <3>1, <3>2, <3>3 DEF CallSized, FileSteps
  <2>3. \A u \in CredTasks : call'[u] = IF u = t THEN r ELSE call[u]
    BY <1>0, <2>1
  <2>4. CallsBegun' = CallsBegun \cup {t} /\ t \notin CallsBegun
    <3>1. \A u : u \in CallsBegun' <=> u \in CallsBegun \cup {t}
      BY <2>2, <2>3 DEF CallsBegun
    <3> QED
      BY <2>1, <3>1 DEF CallsBegun
  <2>5. /\ IsFiniteSet(CallsBegun') /\ Cardinality(CallsBegun') = Cardinality(CallsBegun) + 1
        /\ Cardinality(CallsBegun) \in Nat /\ Cardinality(CallsBegun) <= writesMade
    BY <2>4, FS_AddElement, FS_CardinalityType DEF CredentialBounds
  <2>6. writesMade' \in 0..MaxStored /\ Cardinality(CallsBegun') <= writesMade'
    BY <1>0, <2>1, <2>5
  <2>7. call' = [u \in CredTasks |-> call'[u]] /\ \A u \in CredTasks : CallSized(call'[u])
    BY <1>0, <2>1, <2>2, <2>3
  <2>8. \A u \in CredTasks : CallSized(call[u])'
    BY <2>7 DEF CallSized, FileSteps, NotCalling, Inodes
  <2> QED
    BY <1>0, <2>1, <2>5, <2>6, <2>7, <2>8 DEF CredentialBounds, Inodes
<1>2. ASSUME NEW t \in CredTasks, LoadStore(t) \/ FileFails(t) \/ WriteTemporary(t)
      PROVE  CredentialBounds'
  <2> PICK c : c = call[t]
    OBVIOUS
  <2>1. c # NotCalling /\ CallSized(c)
    BY <1>0, <1>2, CallAt DEF LoadStore, FileFails, WriteTemporary, Updating, FileSteps
  <2>2. UNCHANGED <<named, keyring, keyringUp, writesMade>>
    BY <1>2 DEF LoadStore, FileFails, WriteTemporary
  <2>3. \E r : call' = [call EXCEPT ![t] = r] /\ CallSized(r)
    <3>1. CASE LoadStore(t)
      <4> PICK m : m = [Filed EXCEPT ![c.id] = c.value]
        OBVIOUS
      <4> PICK r : r = [c EXCEPT !.at = "open", !.map = m]
        OBVIOUS
      <4>1. call' = [call EXCEPT ![t] = r]
        BY <1>0, <3>1 DEF LoadStore
      <4>2. c.fd = 0
        BY <2>1, <3>1 DEF CallSized, LoadStore
      <4>3. CallSized(r)
        BY <2>1, <4>2 DEF CallSized, FileSteps
      <4> QED
        BY <4>1, <4>3
    <3>2. CASE FileFails(t)
      <4> PICK r : r = [c EXCEPT !.at = "keyring"]
        OBVIOUS
      <4>1. call' = [call EXCEPT ![t] = r]
        BY <1>0, <3>2 DEF FileFails
      <4>2. CallSized(r)
        BY <2>1 DEF CallSized, FileSteps
      <4> QED
        BY <4>1, <4>2
    <3>3. CASE WriteTemporary(t)
      <4> PICK r : r = [c EXCEPT !.at = "rename"]
        OBVIOUS
      <4>1. call' = [call EXCEPT ![t] = r]
        BY <1>0, <3>3 DEF WriteTemporary
      <4>2. CallSized(r)
        BY <2>1 DEF CallSized, FileSteps
      <4> QED
        BY <4>1, <4>2
    <3> QED
      BY <1>2, <3>1, <3>2, <3>3
  <2> QED
    BY <1>0, <2>1, <2>2, <2>3, CallGoesOn, BoundsKept
<1>3. ASSUME NEW t \in CredTasks, OpenTemporary(t) PROVE CredentialBounds'
  <2> DEFINE free == {i \in Inodes : i \notin {named.main, named.tmp}
                                 /\ \A u \in CredTasks : Updating(u) => call[u].fd # i}
  <2> PICK d : d = IF named.tmp # 0 THEN named.tmp ELSE CHOOSE i \in free : TRUE
    OBVIOUS
  <2> PICK c : c = call[t]
    OBVIOUS
  <2> PICK r : r = [c EXCEPT !.at = "write", !.fd = d]
    OBVIOUS
  <2>1. /\ call[t].at = "open" /\ named' = [named EXCEPT !.tmp = d]
        /\ call' = [call EXCEPT ![t].at = "write", ![t].fd = d]
        /\ UNCHANGED <<keyring, keyringUp, writesMade>>
    BY <1>3 DEF OpenTemporary
  <2>2. d \in Inodes
    <3>1. CASE named.tmp # 0
      BY <1>0, <3>1
    <3>2. CASE named.tmp = 0
      <4>1. free # {}
        BY <2>1, <3>2, InodeIsLeft
      <4> QED
        BY <3>2, <4>1
    <3> QED
      BY <3>1, <3>2
  <2>3. c # NotCalling /\ CallSized(c)
    BY <1>0, <2>1, CallAt
  <2>4. call' = [call EXCEPT ![t] = r]
    <3>1. DOMAIN call = CredTasks /\ r = [call[t] EXCEPT !.at = "write", !.fd = d]
      BY <1>0
    <3>2. call' = [call EXCEPT ![t] = [call[t] EXCEPT !.at = "write", !.fd = d]]
      BY <2>1, <3>1
    <3> QED
      BY <3>1, <3>2
  <2>5. CallSized(r)
    BY <2>2, <2>3 DEF CallSized, FileSteps
  <2>6. named' \in [main: Inodes \cup {0}, tmp: Inodes \cup {0}]
    BY <1>0, <2>1, <2>2
  <2> QED
    BY <1>0, <2>1, <2>3, <2>4, <2>5, <2>6, CallGoesOn, BoundsKept
<1>4. ASSUME NEW t \in CredTasks, RenameTemporary(t) \/ AskKeyring(t) PROVE CredentialBounds'
  <2> PICK c : c = call[t]
    OBVIOUS
  <2>1. c # NotCalling /\ CallSized(c) /\ UNCHANGED <<keyringUp, writesMade>>
    BY <1>0, <1>4, CallAt DEF RenameTemporary, AskKeyring
  <2>2. c.value \in 0..MaxStored /\ c.id \in CredentialIds
    BY <2>1 DEF CallSized
  <2>3. CASE RenameTemporary(t)
    <3> PICK a : a = IF c.op = "store" THEN "done" ELSE "keyring"
      OBVIOUS
    <3> PICK r : r = [c EXCEPT !.filed = TRUE, !.at = a]
      OBVIOUS
    <3>1. call' = [call EXCEPT ![t] = r]
      BY <1>0, <2>3 DEF RenameTemporary
    <3>2. a \in {"done", "keyring"}
      OBVIOUS
    <3>3. CallSized(r)
      BY <2>1, <3>2 DEF CallSized, FileSteps
    <3>4. named' = [main |-> named.tmp, tmp |-> 0] /\ UNCHANGED keyring
      BY <2>3 DEF RenameTemporary
    <3> QED
      BY <1>0, <2>1, <3>1, <3>3, <3>4, CallGoesOn, BoundsKept
  <2>4. CASE AskKeyring(t)
    <3> PICK a : a = IF keyringUp \/ c.filed THEN "done" ELSE "failed"
      OBVIOUS
    <3> PICK r : r = [c EXCEPT !.at = a]
      OBVIOUS
    <3>1. call' = [call EXCEPT ![t] = r]
      BY <1>0, <2>4 DEF AskKeyring
    <3>2. a \in {"done", "failed"}
      OBVIOUS
    <3>3. CallSized(r)
      BY <2>1, <3>2 DEF CallSized, FileSteps
    <3>4. /\ keyring' = IF keyringUp THEN [keyring EXCEPT ![c.id] = c.value] ELSE keyring
          /\ UNCHANGED named
      BY <2>4 DEF AskKeyring
    <3>5. keyring' \in [CredentialIds -> 0..MaxStored]
      BY <1>0, <2>2, <3>4
    <3> QED
      BY <1>0, <2>1, <3>1, <3>3, <3>4, <3>5, CallGoesOn, BoundsKept
  <2> QED
    BY <1>4, <2>3, <2>4
<1>5. ASSUME NEW t \in CredTasks, EndCall(t) PROVE CredentialBounds'
  <2>1. call[t] # NotCalling /\ call' = [call EXCEPT ![t] = NotCalling]
        /\ UNCHANGED <<named, keyring, keyringUp, writesMade>>
    BY <1>0, <1>5, CallAt DEF EndCall
  <2>2. CallSized(NotCalling)
    BY DEF CallSized
  <2> QED
    BY <1>0, <2>1, <2>2, CallGoesOn, BoundsKept
<1>6. CASE KeyringChanges \/ UNCHANGED CredentialVars
  <2>1. UNCHANGED <<call, named, keyring, writesMade>>
    BY <1>6 DEF KeyringChanges, CredentialVars
  <2>2. keyringUp' \in BOOLEAN
    BY <1>0, <1>6, Zenon DEF KeyringChanges, CredentialVars
  <2> QED
    BY <1>0, <2>1, <2>2, CallStays, BoundsKept
<1> QED
  BY <1>1, <1>2, <1>3, <1>4, <1>5, <1>6 DEF CredentialNext

LEMMA CredentialTypesHold == CredentialSpec => []CredentialTypeOK
<1>1. CredentialInit => CredentialBounds
  <2> SUFFICES ASSUME CredentialInit PROVE CredentialBounds
    OBVIOUS
  <2>1. /\ keyring = Empty /\ writesMade = 0 /\ call = [t \in CredTasks |-> NotCalling]
        /\ named = [main |-> IF inode[1] = Legacy THEN 1 ELSE 0, tmp |-> 0]
    BY DEF CredentialInit
  <2>2. keyringUp \in BOOLEAN
    BY Zenon DEF CredentialInit
  <2>3. CallsBegun = {}
    BY <2>1 DEF CallsBegun
  <2>4. \A t \in CredTasks : CallSized(call[t])
    BY <2>1 DEF CallSized
  <2>5. MaxStored \in Nat /\ 1 \in Inodes
    BY CredentialAssumption DEF Inodes
  <2>6. named \in [main: Inodes \cup {0}, tmp: Inodes \cup {0}]
    BY <2>1, <2>5
  <2>7. keyring \in [CredentialIds -> 0..MaxStored]
    BY <2>1, <2>5 DEF Empty, Nothing
  <2> QED
    BY <2>1, <2>2, <2>3, <2>4, <2>5, <2>6, <2>7, FS_EmptySet DEF CredentialBounds
<1>2. CredentialBounds /\ [CredentialNext]_CredentialVars => CredentialBounds'
  BY CredentialBoundsStep
<1>3. CredentialBounds => CredentialTypeOK
  <2> SUFFICES ASSUME CredentialBounds PROVE CredentialTypeOK
    OBVIOUS
  <2>1. \A t \in CredTasks : call[t].at \in {"idle", "keyring", "done", "failed"} \cup FileSteps
    <3>1. \A t \in CredTasks : CallSized(call[t])
      BY DEF CredentialBounds
    <3>2. ASSUME NEW t \in CredTasks, call[t] # NotCalling
          PROVE  call[t].at \in FileSteps \cup {"keyring", "done", "failed"}
      BY <3>1, <3>2 DEF CallSized
    <3>3. NotCalling.at = "idle"
      BY DEF NotCalling
    <3> QED
      BY <3>2, <3>3
  <2>2. Inodes \cup {0} = 0..(MaxStored + 1)
    BY CredentialAssumption DEF Inodes
  <2>3. named.main \in 0..(MaxStored + 1) /\ named.tmp \in 0..(MaxStored + 1)
    BY <2>2 DEF CredentialBounds
  <2> QED
    BY <2>1, <2>3 DEF CredentialTypeOK, CredentialBounds
<1> QED
  BY <1>1, <1>2, <1>3, PTL DEF CredentialSpec

=============================================================================
