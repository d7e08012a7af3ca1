---------------------------- MODULE PathSecurity -----------------------------
(* validate_path of PathSecurityValidator: the verdict on a path while the file  *)
(* system changes under it. A node is a path; it is a file or a directory         *)
(* (Plain), a symbolic link to another node, or Missing.                          *)
EXTENDS Naturals

CONSTANTS
  InsideNodes,     \* paths under the mount point
  DangerousNodes,  \* paths under a dangerous system file
  SensitiveNodes,  \* paths nothing may be written under
  Plain, Missing,  \* what a node that is no link is
  MaxDepth,        \* max_symlink_depth of the profile
  MaxPathChanges   \* bound on the changes of the file system during a call

\* A node is one of these or a path, and a number of links may be followed.
ASSUME PathAssumption ==
  /\ Plain # Missing
  /\ {Plain, Missing} \cap (InsideNodes \cup DangerousNodes \cup SensitiveNodes) = {}
  /\ MaxDepth \in Nat

VARIABLES
  fs,          \* what each node is
  blocked,     \* blocked_paths
  known,       \* get_mount_config finds the share
  check        \* a call, with the changes since it began

PathVars == <<fs, blocked, known, check>>

Nodes == InsideNodes \cup DangerousNodes \cup SensitiveNodes
NoCheck == [at |-> "none"]

\* canonicalize: the nodes the links of a node lead over, and where they end. Links
\* that go in a circle, or to what is missing, end nowhere.
LinksFrom(n) ==
  {m \in Nodes : \A S \in SUBSET Nodes :
     n \in S /\ (\A k \in S : fs[k] \in Nodes => fs[k] \in S) => m \in S}
Resolves(n) == \E m \in LinksFrom(n) : fs[m] = Plain
Followed(n) == IF Resolves(n) THEN CHOOSE m \in LinksFrom(n) : fs[m] = Plain ELSE n

-----------------------------------------------------------------------------
\* Links are made inside the mount only. Between calls anything may change.
PathInit ==
  /\ fs \in [Nodes -> Nodes \cup {Plain, Missing}]
  /\ \A n \in Nodes \ InsideNodes : fs[n] \in {Plain, Missing}
  /\ blocked = {} /\ known \in BOOLEAN /\ check = NoCheck

ChangeNode(n, what) ==
  /\ check.at # "none" /\ check.changes < MaxPathChanges
  /\ fs[n] # what
  /\ n \notin InsideNodes => what \notin Nodes
  /\ fs' = [fs EXCEPT ![n] = what]
  /\ check' = [check EXCEPT !.changes = @ + 1]
  /\ UNCHANGED <<blocked, known>>

\* block_path, for one path, and register_mount or unregister_mount of the share.
BlockPath(n) ==
  /\ blocked = {}
  /\ blocked' = blocked \cup {n}
  /\ UNCHANGED <<fs, known, check>>

ShareComesOrGoes ==
  /\ known' = ~known
  /\ UNCHANGED <<fs, blocked, check>>

\* The path is resolved first, and kept as it is if it cannot be. A failed
\* attempt is made again.
BeginCheck(n, write) ==
  /\ check.at = "none"
  /\ check' = [at |-> IF Resolves(n) THEN "judge" ELSE "again", path |-> n,
               write |-> write,
               changes |-> 0, depth |-> 0, walked |-> FALSE,
               abs |-> Followed(n), cur |-> Followed(n)]
  /\ UNCHANGED <<fs, blocked, known>>

ResolveAgain ==
  /\ check.at = "again"
  /\ LET n == Followed(check.path)
     IN check' = [check EXCEPT !.at = "judge", !.abs = n, !.cur = n]
  /\ UNCHANGED <<fs, blocked, known>>

\* Blocked and dangerous paths, then the boundaries of a known share, which are
\* all there is when its allowed paths are its mount point.
JudgePath ==
  /\ check.at = "judge"
  /\ check' = [check EXCEPT !.walked = known, !.at =
       IF check.abs \in blocked \cup DangerousNodes THEN "blocked"
       ELSE IF known /\ check.abs \notin InsideNodes THEN "outside"
       ELSE IF known THEN "look" ELSE "permissions"]
  /\ UNCHANGED <<fs, blocked, known>>

\* validate_symlink_depth walks on from the resolved path.
LookAtLink ==
  /\ check.at = "look"
  /\ check' =
       IF fs[check.cur] = Plain THEN [check EXCEPT !.at = "permissions"]
       ELSE IF fs[check.cur] = Missing \/ check.depth = MaxDepth
       THEN [check EXCEPT !.at = "links"]
       ELSE [check EXCEPT !.at = "read", !.depth = @ + 1]
  /\ UNCHANGED <<fs, blocked, known>>

ReadLink ==
  /\ check.at = "read"
  /\ check' = IF fs[check.cur] \in Nodes
              THEN [check EXCEPT !.at = "look", !.cur = fs[check.cur]]
              ELSE [check EXCEPT !.at = "links"]
  /\ UNCHANGED <<fs, blocked, known>>

\* validate_write_permissions
CheckPermissions ==
  /\ check.at = "permissions"
  /\ check' = [check EXCEPT !.at = IF check.write /\ check.abs \in SensitiveNodes
                                   THEN "denied" ELSE "safe"]
  /\ UNCHANGED <<fs, blocked, known>>

Verdicts == {"blocked", "outside", "links", "denied", "safe"}

EndCheck ==
  /\ check.at \in Verdicts
  /\ check' = NoCheck
  /\ UNCHANGED <<fs, blocked, known>>

PathNext ==
  \/ \E n \in Nodes, what \in Nodes \cup {Plain, Missing} : ChangeNode(n, what)
  \/ \E n \in Nodes : BlockPath(n)
  \/ ShareComesOrGoes
  \/ \E n \in Nodes, write \in BOOLEAN : BeginCheck(n, write)
  \/ ResolveAgain
  \/ JudgePath
  \/ LookAtLink
  \/ ReadLink
  \/ CheckPermissions
  \/ EndCheck

PathSpec == PathInit /\ [][PathNext]_PathVars

-----------------------------------------------------------------------------
PathTypeOK ==
  /\ fs \in [Nodes -> Nodes \cup {Plain, Missing}]
  /\ blocked \subseteq Nodes /\ known \in BOOLEAN
  /\ check.at \in {"none", "again", "judge", "look", "read", "permissions"} \cup Verdicts
  /\ check.at # "none" => check.depth \in 0..MaxDepth

\* While nothing changes, the verdict is the one a single look would give: a path
\* that leads to a file is never refused for its links, however many they are, for
\* the walk begins where they end; and a path is found safe in a known share only
\* if it leads to a file inside. A limit on links can act only on links that appear
\* between the steps of one call (path_security.rs:305-440, 558-600).
VerdictsStand ==
  /\ check.at = "links" => check.changes > 0 \/ ~Resolves(check.path)
  /\ check.at = "safe" /\ check.changes = 0 =>
       /\ check.abs \notin DangerousNodes
       /\ check.walked => Resolves(check.path) /\ Followed(check.path) \in InsideNodes
=============================================================================
