----------------------------- MODULE SealedStore -----------------------------
(* The encrypted credential file as a record: what FileCredentialProvider and an *)
(* Encryptor write, what happens to its fields on disk, and what opening it does. *)
(* A ciphertext stands for what it was made of; it opens only under the same      *)
(* key, nonce and algorithm.                                                      *)
EXTENDS Naturals

CONSTANTS
  Masters,       \* master keys: user, home, host and ids of a process
  Salts,         \* salts the generator may yield
  PoorSalts,     \* those whose bits are distributed too unevenly
  SealedMaps       \* credential maps

VARIABLES
  sealed,        \* the record on disk
  written,       \* what it was written from and by whom, a history variable
  altered        \* fields altered since

SealedVars == <<sealed, written, altered>>

Algorithms == {"aes-256-gcm", "chacha20-poly1305"}

\* EncryptionConfig: an algorithm and iterations, in thousands. with_iterations
\* warns of too few and takes them; validate_security_params is not called.
IterationChoices == {30, 120, 200}
LeastIterations == 60
Providers == [master : Masters, algorithm : Algorithms, iterations : IterationChoices]

\* Faulty: of the master key and the salt alone.
KeyOfMaster(p, salt) ==
  [from |-> CHOOSE q \in Providers : q.master = p.master, salt |-> salt]

\* derive_encryption_key: of the provider's own master key, iterations and
\* algorithm, and of the file's salt.
KeyOf(p, salt) == [from |-> p, salt |-> salt]

\* Encryptor::encrypt: every key has 32 bytes, every nonce written has 12.
Encrypted(content, key, algorithm) ==
  [algorithm |-> algorithm, nonce |-> "own",
   ciphertext |-> [of |-> content, key |-> key, algorithm |-> algorithm]]
Damaged == [of |-> "none", key |-> [from |-> "none"], algorithm |-> "none"]

\* save_store does not look at the quality of the salt it draws.
SaveStore(p, content, salt) ==
  /\ sealed' = [version |-> 3, algorithm |-> p.algorithm, iterations |-> p.iterations,
                salt |-> salt, data |-> Encrypted(content, KeyOf(p, salt), p.algorithm)]
  /\ written' = [by |-> p, content |-> content, salt |-> salt]
  /\ altered' = {}

\* Encryptor::decrypt: a mismatch of the algorithm is refused first; a nonce that
\* cannot be decoded is refused, one of another length is a panic, for the cipher
\* takes it as a slice of twelve bytes.
Decrypt(data, key, algorithm) ==
  CASE data.algorithm # algorithm -> [is |-> "refused"]
    [] data.algorithm = algorithm /\ data.nonce = "undecodable" -> [is |-> "refused"]
    [] data.algorithm = algorithm /\ data.nonce = "short" -> [is |-> "panic"]
    [] OTHER -> IF /\ data.nonce = "own" /\ data.ciphertext # Damaged
                   /\ data.ciphertext.key = key
                   /\ data.ciphertext.algorithm = algorithm
                THEN [is |-> "open", content |-> data.ciphertext.of]
                ELSE [is |-> "refused"]

\* load_store_v3 of a provider.
Open(p) ==
  IF \/ sealed.version # 3
     \/ sealed.iterations < LeastIterations
     \/ sealed.salt \in PoorSalts
  THEN [is |-> "refused"]
  ELSE Decrypt(sealed.data, KeyOf(p, sealed.salt), sealed.algorithm)

\* A field of the file is no longer what was written.
Alter(field) ==
  /\ altered' = altered \cup {field}
  /\ UNCHANGED written
  /\ CASE field = "version" -> sealed' = [sealed EXCEPT !.version = 2]
       [] field = "iterations" -> \E n \in IterationChoices :
            sealed' = [sealed EXCEPT !.iterations = n]
       [] field = "salt" -> \E s \in Salts : sealed' = [sealed EXCEPT !.salt = s]
       [] field = "algorithm" -> \E a \in Algorithms :
            sealed' = [sealed EXCEPT !.algorithm = a]
       [] field = "inner algorithm" -> \E a \in Algorithms :
            sealed' = [sealed EXCEPT !.data.algorithm = a]
       [] field = "nonce" -> \E n \in {"other", "short", "undecodable"} :
            sealed' = [sealed EXCEPT !.data.nonce = n]
       [] field = "ciphertext" -> sealed' = [sealed EXCEPT !.data.ciphertext = Damaged]

Fields == {"version", "iterations", "salt", "algorithm", "inner algorithm",
           "nonce", "ciphertext"}

SealedInit ==
  /\ \E p \in Providers, c \in SealedMaps, s \in Salts :
       /\ sealed = [version |-> 3, algorithm |-> p.algorithm, iterations |-> p.iterations,
                    salt |-> s, data |-> Encrypted(c, KeyOf(p, s), p.algorithm)]
       /\ written = [by |-> p, content |-> c, salt |-> s]
  /\ altered = {}

SealedNext ==
  \/ \E p \in Providers, c \in SealedMaps, s \in Salts : SaveStore(p, c, s)
  \/ \E field \in Fields : Alter(field)

SealedSpec == SealedInit /\ [][SealedNext]_SealedVars

-----------------------------------------------------------------------------

SealedTypeOK ==
  /\ sealed.version \in {2, 3} /\ sealed.algorithm \in Algorithms
  /\ sealed.iterations \in IterationChoices /\ sealed.salt \in Salts
  /\ written.by \in Providers /\ altered \subseteq Fields

\* Whatever was altered, what opens is what was written, and opens only for the
\* process, algorithm and iterations it was written with. It does open for them,
\* unless a field other than the iterations was altered, too few of these were
\* asked for, or the salt drawn was poor; and only an altered nonce is a panic
\* (file_provider.rs:271-350, encryption.rs:430-600).
SealHolds ==
  \A p \in Providers :
    /\ Open(p).is = "open" => Open(p).content = written.content /\ p = written.by
    /\ Open(p).is = "panic" => "nonce" \in altered
    /\ altered = {} /\ p = written.by =>
         (Open(p).is = "open" <=> /\ written.salt \notin PoorSalts
                                  /\ written.by.iterations >= LeastIterations)
=============================================================================
