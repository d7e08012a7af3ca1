----------------------------- MODULE ConfigLocks -----------------------------
(* The locks and the access list of security/config_security.rs, for one          *)
(* configuration.  The lock table has one slot per resource, so that granting a    *)
(* lock beside another, which the conflict check allows, replaces the other.  What *)
(* the callers believe is in `holds'.                                              *)
EXTENDS FiniteSets

CONSTANTS LockUsers     \* users of the configuration

ASSUME LocksAssumption == "nobody" \notin LockUsers

VARIABLES slot,         \* the entry of the resource, or FreeSlot
          holds,        \* the lock each user was granted and still counts on
          access,       \* acl.users: each user's entry
          admitted,     \* acquire_lock calls past the check for an admin lock
          displaced     \* of the properties only: the type of the lock that replaced
                        \* the one a user counts on

LocksVars == <<slot, holds, access, admitted, displaced>>

LockTypes == {"Read", "Write", "Admin"}
Grants == {"unlisted", "user", "admin"}
FreeSlot == [user |-> "nobody", type |-> "none", expired |-> FALSE]

LocksTypeOK ==
  /\ slot \in {FreeSlot} \cup [user: LockUsers, type: LockTypes, expired: BOOLEAN]
  /\ holds \in [LockUsers -> LockTypes \cup {"none"}]
  /\ access \in [LockUsers -> Grants]
  /\ admitted \subseteq LockUsers
  /\ displaced \in [LockUsers -> LockTypes \cup {"none"}]

LocksInit ==
  /\ slot = FreeSlot
  /\ holds = [u \in LockUsers |-> "none"]
  /\ access = [u \in LockUsers |-> "unlisted"]
  /\ admitted = {}
  /\ displaced = [u \in LockUsers |-> "none"]

-----------------------------------------------------------------------------
\* add_user and remove_user.  An unlisted user has the default permissions, which
\* are to read (no code adds a group).
SetAccess(u, g) ==
  /\ access' = [access EXCEPT ![u] = g]
  /\ UNCHANGED <<slot, holds, admitted, displaced>>

\* The admin permission is asked for before the table's guard is taken, and not
\* again; other locks ask for nothing.
AdmitAdmin(u) ==
  /\ access[u] = "admin" /\ u \notin admitted
  /\ admitted' = admitted \cup {u}
  /\ UNCHANGED <<slot, holds, access, displaced>>

\* Faulty: only like conflicts with like.
ConflictsByType(held, wanted) == held # "Read" /\ held = wanted

\* The conflict check; an expired lock conflicts until it is cleaned up.
Conflicts(held, wanted) ==
  \/ held = "Admin"
  \/ held = "Write" /\ wanted \in {"Write", "Admin"}

AcquireLock(u, t) ==
  /\ holds[u] = "none"
  /\ t = "Admin" => u \in admitted
  /\ slot # FreeSlot => ~Conflicts(slot.type, t)
  /\ slot' = [user |-> u, type |-> t, expired |-> FALSE]
  /\ holds' = [holds EXCEPT ![u] = t]
  /\ admitted' = admitted \ {u}
  /\ displaced' = [v \in LockUsers |-> IF v = u THEN "none"
                                      ELSE IF slot.user = v THEN t
                                      ELSE displaced[v]]
  /\ UNCHANGED access

AcquireRefused(u) ==
  /\ u \in admitted /\ slot # FreeSlot /\ Conflicts(slot.type, "Admin")
  /\ admitted' = admitted \ {u}
  /\ UNCHANGED <<slot, holds, access, displaced>>

\* release_lock takes the id of the lock; the id of a replaced lock is refused, and
\* its holder can do no more than give up.
ReleaseLock(u) ==
  /\ holds[u] # "none"
  /\ holds' = [holds EXCEPT ![u] = "none"]
  /\ displaced' = [displaced EXCEPT ![u] = "none"]
  /\ slot' = IF slot.user = u THEN FreeSlot ELSE slot
  /\ UNCHANGED <<access, admitted>>

\* lock_timeout passes: the holder knows that its lock is over.
LockExpires ==
  /\ slot # FreeSlot /\ ~slot.expired
  /\ slot' = [slot EXCEPT !.expired = TRUE]
  /\ holds' = [holds EXCEPT ![slot.user] = "none"]
  /\ UNCHANGED <<access, admitted, displaced>>

CleanupExpiredLocks ==
  /\ slot.expired /\ slot' = FreeSlot
  /\ UNCHANGED <<holds, access, admitted, displaced>>

LocksNext ==
  \/ \E u \in LockUsers :
       \/ \E g \in Grants : SetAccess(u, g)
       \/ AdmitAdmin(u) \/ AcquireRefused(u) \/ ReleaseLock(u)
       \/ \E t \in LockTypes : AcquireLock(u, t)
  \/ LockExpires \/ CleanupExpiredLocks

LocksSpec == LocksInit /\ [][LocksNext]_LocksVars

-----------------------------------------------------------------------------
(* Properties *)

\* A lock the holder counts on is lost only as the conflict check allows: an admin
\* lock to nobody, a write lock to a reader alone.  So nobody is granted a lock
\* while an admin works, and a second writer comes only after a reader took the
\* first writer's place in the table.
LostOnlyToReader ==
  \A u \in LockUsers :
    /\ holds[u] = "Admin" => displaced[u] = "none"
    /\ holds[u] = "Write" => displaced[u] \in {"none", "Read"}
    /\ \A v \in LockUsers \ {u} :
         holds[u] # "none" /\ holds[v] # "none" =>
           displaced[u] # "none" \/ displaced[v] # "none"
=============================================================================
