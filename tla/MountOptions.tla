---------------------------- MODULE MountOptions ----------------------------
(* The options of a mount: what MountOptionParser makes of the list in a mount *)
(* request, what MountOptionsValidator lets through to a command, and the list *)
(* the NFS driver builds from its defaults and the request's options.          *)
EXTENDS Integers, Sequences

NoValue == -1      \* a flag
NotNumber == -2    \* a value that does not parse as a number

\* An option: a key, its value and whether the value is written with a leading 0.
Flag(k) == [key |-> k, val |-> NoValue, octal |-> FALSE]
Valued(k, v) == [key |-> k, val |-> v, octal |-> FALSE]

-----------------------------------------------------------------------------
(* The parser                                                               *)

Numbers == {"uid", "gid", "fmode", "file_mode", "dmode", "dir_mode", "rsize",
            "wsize", "timeo", "retrans", "nfsvers"}

Parsing == [keys |-> {}, ro |-> FALSE, soft |-> FALSE, refused |-> FALSE,
            num |-> [k \in Numbers |-> NoValue]]

\* process_key_value_option: sizes are in bytes, suffixes already applied.
ParseValue(p, o) ==
  [p EXCEPT !.keys = @ \cup {o.key},
            !.refused = o.key \in Numbers /\ o.val = NotNumber,
            !.num = [k \in Numbers |-> IF k = o.key THEN o.val ELSE @[k]]]

\* process_boolean_option
ParseFlag(p, o) ==
  [p EXCEPT !.keys = @ \cup {o.key},
            !.ro = (o.key = "ro") \/ (@ /\ o.key # "rw"),
            !.soft = (o.key = "soft") \/ (@ /\ o.key # "hard"),
            !.refused = \/ o.key = "ro" /\ "rw" \in p.keys
                        \/ o.key = "rw" /\ "ro" \in p.keys]

ParseOption(p, o) ==
  IF p.refused THEN p
  ELSE IF o.val = NoValue THEN ParseFlag(p, o) ELSE ParseValue(p, o)

\* apply_defaults: the daemon names the protocol, which is "smb" and never the
\* "cifs" or "smbfs" that have defaults and limits of their own.
ApplyDefaults(p, protocol) ==
  IF protocol # "nfs" THEN p
  ELSE [p EXCEPT !.num = [k \in Numbers |->
          IF k \in p.keys THEN @[k]
          ELSE CASE k \in {"rsize", "wsize"} -> 1048576
                 [] k = "timeo" -> 600
                 [] k = "retrans" -> 2
                 [] OTHER -> NoValue]]

Within(v, lo, hi) == v = NoValue \/ v \in lo..hi

\* MountOptionParser.validate_options
ParserValidates(p, protocol) ==
  /\ ~(p.ro /\ "rw" \in p.keys)
  /\ ~(~p.soft /\ p.num["timeo"] = 0)
  /\ protocol = "nfs" =>
       /\ Within(p.num["nfsvers"], 3, 4)
       /\ Within(p.num["rsize"], 1024, 104857600)
       /\ Within(p.num["wsize"], 1024, 104857600)
       /\ Within(p.num["timeo"], 1, 3600)

\* MountOptionParser.parse: what it has read after so many options of the list.
ParsedAfter(list) ==
  LET after[n \in 0..Len(list)] ==
        IF n = 0 THEN Parsing ELSE ParseOption(after[n - 1], list[n])
  IN after

ParserAccepts(list, protocol) ==
  LET p == ParsedAfter(list)[Len(list)]
  IN /\ ~p.refused
     /\ ParserValidates(ApplyDefaults(p, protocol), protocol)

-----------------------------------------------------------------------------
(* The allowlist of options                                                  *)

CommonOptions == {"ro", "rw", "sync", "async", "auto", "noauto", "defaults",
                  "nofail", "noatime", "nosuid", "nodev", "noexec", "_netdev",
                  "x-gvfs-show", "comment"}

OwnOptions(kind) ==
  CASE kind = "nfs" -> {"hard", "soft", "intr", "nointr", "proto", "vers",
         "nfsvers", "port", "rsize", "wsize", "timeo", "retrans", "bg", "fg",
         "tcp", "udp", "lock", "nolock", "sec", "fsc"}
    [] kind = "smb" -> {"username", "password", "uid", "gid", "file_mode",
         "dir_mode", "iocharset", "codepage", "domain", "workgroup", "guest",
         "ro", "rw", "vers"}
    [] kind = "sshfs" -> {"allow_other", "allow_root", "default_permissions",
         "uid", "gid", "file_mode", "dir_mode", "cache", "no_cache",
         "direct_io", "reconnect", "ServerAliveInterval",
         "ServerAliveCountMax", "Compression", "no_check_root",
         "password_stdin"}

\* The keys here that begin with "x-", and the options the default configuration
\* blocks: "user" only with a value.
ExtensionKeys == {"x-gvfs-show", "x-systemd.automount"}
Blocked(o) == \/ o.key \in {"exec", "suid", "dev", "users", "owner", "acl"}
              \/ o.key = "user" /\ o.val # NoValue

\* A mode without a leading zero is read as a hexadecimal number.
AsHex(v) == (v \div 100) * 256 + ((v \div 10) % 10) * 16 + (v % 10)

\* validate_specific_option
ValueAllowed(o) ==
  \/ o.val = NoValue
  \/ CASE o.key \in {"uid", "gid"} -> o.val # NotNumber
       [] o.key \in {"file_mode", "dir_mode"} ->
            o.octal \/ (o.val # NotNumber /\ AsHex(o.val) <= 511)
       [] o.key = "port" -> o.val \in 1..65535
       [] OTHER -> TRUE

OptionAllowed(kind, o) ==
  \/ o.key \in ExtensionKeys
  \/ /\ ~Blocked(o)
     /\ o.key \in OwnOptions(kind) \cup CommonOptions
     /\ ValueAllowed(o)

\* MountOptionsValidator.validate_options
OptionsAllowed(kind, list) ==
  Len(list) <= 50 /\ \A i \in DOMAIN list : OptionAllowed(kind, list[i])

-----------------------------------------------------------------------------
(* The list of an NFS mount                                                  *)

ConflictPairs == {{"soft", "hard"}, {"bg", "fg"}, {"lock", "nolock"},
                  {"tcp", "udp"}, {"ro", "rw"}, {"sync", "async"},
                  {"intr", "nointr"}, {"auto", "noauto"}}

Conflicting(a, b) == {a, b} \in ConflictPairs

NfsDefaults == <<Flag("nolock"), Valued("timeo", 50), Valued("retrans", 2),
                 Flag("soft"), Flag("_netdev")>>

\* What `retain` has kept after so many options of the list.
KeptAfter(list, dropped) ==
  LET kept[n \in 0..Len(list)] ==
        IF n = 0 THEN <<>>
        ELSE IF list[n].key \in dropped THEN kept[n - 1]
        ELSE Append(kept[n - 1], list[n])
  IN kept

Without(list, dropped) == KeptAfter(list, dropped)[Len(list)]

\* Faulty: only the same key is taken away, not what contradicts it.
MergeOptionOnly(list, o) == Append(Without(list, {o.key}), o)

\* One option of the request goes over what the list holds so far.
MergeOption(list, o) ==
  Append(Without(list, {o.key} \cup UNION {pair \in ConflictPairs : o.key \in pair}), o)

\* The driver's list after so many options of the request.
MergedAfter(given) ==
  LET merged[n \in 0..Len(given)] ==
        IF n = 0 THEN NfsDefaults ELSE MergeOption(merged[n - 1], given[n])
  IN merged

NfsOptions(given) == MergedAfter(given)[Len(given)]
=============================================================================
