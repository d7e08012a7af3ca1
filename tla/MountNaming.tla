----------------------------- MODULE MountNaming -----------------------------
(* What a mount URL becomes: the checks of MountUrlValidator, the id under which *)
(* the daemon looks for the share, the id under which the configuration keeps it, *)
(* and the directory it is mounted on. The three are computed apart.              *)
EXTENDS Naturals, Sequences, SequencesExt, FiniteSets

CONSTANTS
  NamedHosts,  \* host names; "localhost" is blocked
  Words,       \* what path components are made of
  MaxPath,     \* bound on the components of a path
  MaxShares,   \* bound on the shares configured
  GivenPoints  \* mount points a request may name itself

VARIABLES
  configured,  \* shares in the configuration
  answer       \* the last answer: the id it named and the URL it was for

NamingVars == <<configured, answer>>

Schemes == {"nfs", "smb", "cifs", "sshfs"}

\* A component is a sequence of words with "_" between them: "a/b" and "a_b" are
\* different paths. The empty component is what a doubled or trailing slash leaves.
Component == {<<w>> : w \in Words} \cup {<<"a", "b">>, <<>>}
Paths == SeqOf(Component, MaxPath)
Urls == [scheme : Schemes, host : NamedHosts, path : Paths]

\* The words standing for names with a reserved beginning ("etc", "dev", "bin"
\* and the like) and for those ending in a dangerous name ("sh", "users", "local").
Reserved == {"etc", "dev", "bin"}
Dangerous == {"passwd", "users", "sh"}

\* trim_start_matches('/')
Trimmed(p) ==
  LET lead == CHOOSE n \in 0..Len(p) : /\ \A i \in 1..n : p[i] = <<>>
                                       /\ n < Len(p) => p[n + 1] # <<>>
  IN SubSeq(p, lead + 1, Len(p))

NoPath(p) == p \in {<<>>, << <<>> >>}        \* "" and "/"

-----------------------------------------------------------------------------
(* MountUrlValidator                                                         *)

\* sanitize_path_component: refuses "..", "//" and dangerous names; empty
\* components go.
PathIsClean(p) ==
  LET t == Trimmed(p)
  IN /\ \A i \in DOMAIN t :
          /\ t[i] # <<"..">>
          /\ t[i] = <<>> => i = Len(t)
          /\ t[i] # <<>> => Last(t[i]) \notin Dangerous
Sanitized(p) ==
  LET kept == {i \in DOMAIN p : p[i] # <<>>}
  IN [n \in 1..Cardinality(kept) |->
        p[CHOOSE i \in kept : Cardinality({j \in kept : j <= i}) = n]]

\* validate_url
UrlIsValid(u) ==
  /\ u.host # "localhost"
  /\ u.path # <<>>
  /\ ~NoPath(u.path) =>
       /\ PathIsClean(u.path)
       /\ Sanitized(u.path) # <<>> => Head(Head(Sanitized(u.path))) \notin Reserved

\* parse_url of the handler: SMB needs a share.
UrlAccepted(u) ==
  UrlIsValid(u) /\ (u.scheme \in {"smb", "cifs"} => ~NoPath(u.path))

-----------------------------------------------------------------------------
(* Names                                                                     *)

\* The handler a scheme has; cifs is served by SMB's.
Protocol(scheme) == IF scheme = "cifs" THEN "smb" ELSE scheme

\* The path in an id: all words with "_" between them, slashes being "_" too.
IdWords(p) ==
  IF NoPath(p) THEN <<"no path">>
  ELSE FlattenSeq([i \in DOMAIN Trimmed(p) |->
                     IF Trimmed(p)[i] = <<>> THEN <<"">> ELSE Trimmed(p)[i]])

\* generate_mount_id of the handlers, and generate_id of MountConfig.
HandlerId(u) == [host |-> u.host, tag |-> Protocol(u.scheme), path |-> IdWords(u.path)]
ConfigId(u) == [host |-> u.host, tag |-> u.scheme, path |-> IdWords(u.path)]

\* generate_mount_point
PointOf(u) ==
  <<u.host, Protocol(u.scheme)>> \o (IF NoPath(u.path) THEN <<>> ELSE Sanitized(u.path))

-----------------------------------------------------------------------------
NoAnswer == [told |-> FALSE]

NamingInit == configured = {} /\ answer = NoAnswer

IdsIn(shares) == {ConfigId(s.url) : s \in shares}

\* handle_mount_request: looks for the handler's id, answers with it, and adds
\* the share under the configuration's.
MountUrl(u, given) ==
  /\ Cardinality(configured) < MaxShares
  /\ UrlAccepted(u)
  /\ HandlerId(u) \notin IdsIn(configured)
  /\ LET share == [url |-> u, given |-> given # "none",
                   point |-> IF given = "none" THEN PointOf(u) ELSE <<given>>]
     IN configured' = {s \in configured : ConfigId(s.url) # ConfigId(u)} \cup {share}
  /\ answer' = [told |-> TRUE, id |-> HandlerId(u), url |-> u]

\* handle_remove_request with any id there is.
RemoveShare(s) ==
  /\ s \in configured
  /\ configured' = configured \ {s}
  /\ answer' = NoAnswer

NamingNext ==
  \/ \E u \in Urls, given \in GivenPoints \cup {"none"} : MountUrl(u, given)
  \/ \E s \in configured : RemoveShare(s)

NamingSpec == NamingInit /\ [][NamingNext]_NamingVars

-----------------------------------------------------------------------------
NamingTypeOK ==
  /\ \A s \in configured : s.url \in Urls /\ UrlAccepted(s.url)
  /\ answer.told => answer.url \in Urls

\* The three namings agree as far as they do. The id a mount request is answered
\* with finds the share, unless the scheme is cifs: then it is kept under an id
\* nobody was told. Two shares that chose no mount point share a directory only
\* when one is cifs, or their URLs differ in doubled or trailing slashes alone:
\* those are different ids for one directory (daemon/mod.rs:1030-1041,
\* mount/mod.rs:153-182).
NamesAgree ==
  /\ answer.told =>
       (answer.id \in IdsIn(configured) \/ answer.url.scheme = "cifs")
  /\ \A s, t \in configured :
       (s # t /\ ~s.given /\ ~t.given /\ s.point = t.point) =>
         \/ "cifs" \in {s.url.scheme, t.url.scheme}
         \/ Sanitized(s.url.path) = Sanitized(t.url.path) /\ s.url.path # t.url.path
=============================================================================
