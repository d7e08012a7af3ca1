------------------------- MODULE HardwareCredentials -------------------------
(* HardwareCredentialProvider over a key store that keeps what it is given:      *)
(* storing, reading and rotating credentials by concurrent callers. The software *)
(* key store of the crate refuses to store; one that works is external.           *)
EXTENDS Naturals, FiniteSets

CONSTANTS
  HsmIds,        \* mount ids
  HsmTasks,      \* concurrent callers
  HsmPermits,    \* permits of rate_limiter (10)
  MaxHsmStores   \* bound on credentials stored

ASSUME HsmAssumption == HsmPermits \in Nat /\ MaxHsmStores \in Nat

VARIABLES
  hsm,           \* credential the key store holds for an id: its number, 0 for none
  keyCache,      \* the same for key_cache
  permitsLeft,   \* free permits of rate_limiter
  op,            \* what each task is doing
  stored,        \* credentials stored so far
  latest,        \* the credential last given to the key store
  crossed        \* two operations on one id have overlapped

HsmVars == <<hsm, keyCache, permitsLeft, op, stored, latest, crossed>>

None == 0
AtRest == [at |-> "idle"]
Zero == [id \in HsmIds |-> None]

HsmInit ==
  /\ hsm = Zero /\ keyCache = Zero /\ permitsLeft = HsmPermits
  /\ op = [t \in HsmTasks |-> AtRest] /\ stored = 0
  /\ latest = Zero /\ crossed = {}

Changing(t, id) == op[t].at \in {"store", "cache", "rotating", "rotate", "recache"}
                   /\ op[t].id = id

-----------------------------------------------------------------------------
\* The permit is taken first, and dropped however the call ends. A password that
\* is short or plain ends a store here.
Call(t, id, what, valid) ==
  /\ op[t] = AtRest /\ permitsLeft > 0
  /\ valid => what # "store" \/ stored < MaxHsmStores
  /\ IF what = "store" /\ ~valid
     THEN UNCHANGED <<op, permitsLeft, stored, crossed>>
     ELSE /\ permitsLeft' = permitsLeft - 1
          /\ stored' = IF what = "store" THEN stored + 1 ELSE stored
          /\ op' = [op EXCEPT ![t] =
                      [at |-> what, id |-> id, value |-> IF what = "store" THEN stored' ELSE None]]
          /\ crossed' = IF what # "get" /\ \E u \in HsmTasks : Changing(u, id)
                        THEN crossed \cup {id} ELSE crossed
  /\ UNCHANGED <<hsm, keyCache, latest>>

Return(t) == op' = [op EXCEPT ![t] = AtRest] /\ permitsLeft' = permitsLeft + 1

\* store_enhanced_credential: the key store, then the cache.
StoreKey(t) ==
  /\ op[t].at = "store"
  /\ hsm' = [hsm EXCEPT ![op[t].id] = op[t].value]
  /\ latest' = [latest EXCEPT ![op[t].id] = op[t].value]
  /\ op' = [op EXCEPT ![t].at = "cache"]
  /\ UNCHANGED <<keyCache, permitsLeft, stored, crossed>>

CacheKey(t) ==
  /\ op[t].at = "cache"
  /\ keyCache' = [keyCache EXCEPT ![op[t].id] = op[t].value]
  /\ Return(t)
  /\ UNCHANGED <<hsm, stored, latest, crossed>>

\* get_enhanced_credential: a key in the cache is counted, and the key store is
\* asked all the same; so it is again if it had nothing.
GetKey(t) ==
  /\ op[t].at = "get"
  /\ op' = [op EXCEPT ![t].at = "answered", ![t].value = hsm[op[t].id]]
  /\ UNCHANGED <<hsm, keyCache, permitsLeft, stored, latest, crossed>>

\* rotate_credential_key: what the key store has goes back to it, whole; the new
\* version and salt are made after that and never stored.
RotateReads(t) ==
  /\ op[t].at = "rotating" /\ hsm[op[t].id] # None
  /\ op' = [op EXCEPT ![t].at = "rotate", ![t].value = hsm[op[t].id]]
  /\ UNCHANGED <<hsm, keyCache, permitsLeft, stored, latest, crossed>>

RotateWrites(t) ==
  /\ op[t].at = "rotate"
  /\ hsm' = [hsm EXCEPT ![op[t].id] = op[t].value]
  /\ op' = [op EXCEPT ![t].at = "recache"]
  /\ UNCHANGED <<keyCache, permitsLeft, stored, latest, crossed>>

RotateCaches(t) ==
  /\ op[t].at = "recache"
  /\ keyCache' = IF keyCache[op[t].id] = None THEN keyCache
                 ELSE [keyCache EXCEPT ![op[t].id] = op[t].value]
  /\ Return(t)
  /\ UNCHANGED <<hsm, stored, latest, crossed>>

\* The key store fails, or has nothing to rotate, or an answer is taken.
CallReturns(t) ==
  /\ op[t].at \in {"store", "get", "rotating", "rotate", "answered"}
  /\ Return(t)
  /\ UNCHANGED <<hsm, keyCache, stored, latest, crossed>>

\* A restart loses the cache and nothing else.
ProviderRestarts ==
  /\ op' = [t \in HsmTasks |-> AtRest] /\ permitsLeft' = HsmPermits
  /\ keyCache' = Zero
  /\ UNCHANGED <<hsm, stored, latest, crossed>>

HsmNext ==
  \/ \E t \in HsmTasks, id \in HsmIds, what \in {"store", "get", "rotating"},
        valid \in BOOLEAN : Call(t, id, what, valid)
  \/ \E t \in HsmTasks :
       \/ StoreKey(t) \/ CacheKey(t) \/ GetKey(t)
       \/ RotateReads(t) \/ RotateWrites(t) \/ RotateCaches(t) \/ CallReturns(t)
  \/ ProviderRestarts

HsmSpec == HsmInit /\ [][HsmNext]_HsmVars

-----------------------------------------------------------------------------
HsmTypeOK ==
  /\ hsm \in [HsmIds -> 0..MaxHsmStores] /\ keyCache \in [HsmIds -> 0..MaxHsmStores]
  /\ permitsLeft = HsmPermits - Cardinality({t \in HsmTasks : op[t] # AtRest})
  /\ permitsLeft \in 0..HsmPermits /\ crossed \subseteq HsmIds

\* An id whose stores and rotations never overlapped has the credential last
\* given to the key store there, whatever failed, and a cached key between two
\* calls is that credential: only a rotation that read before a store puts an
\* older credential back (hardware_credential_provider.rs:265-300).
RotationKeepsLatest ==
  \A id \in HsmIds \ crossed :
    /\ hsm[id] = latest[id]
    /\ (\A t \in HsmTasks : ~Changing(t, id)) => keyCache[id] \in {None, hsm[id]}
=============================================================================
