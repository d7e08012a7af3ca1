---------------------------- MODULE KeyDerivation ----------------------------
(* Parameters of the key derivation functions: what the manager's cache hands    *)
(* out for a level, what auto_tune may make of them, and what a key derived with *)
(* them depends on. Times are a choice.                                           *)
EXTENDS Naturals, Sequences

CONSTANTS
  MaxTunings   \* bound on auto_tune calls

ASSUME KeyAssumption == MaxTunings \in Nat

VARIABLES
  chosen,       \* the function and level of the parameters in use
  params,      \* the parameters
  tunings      \* auto_tune calls on them

KeyVars == <<chosen, params, tunings>>

MemoryHard == {"Argon2id", "Scrypt"}
KdfFunctions == {"PBKDF2Sha256", "PBKDF2Sha512"} \cup MemoryHard
Levels == <<"Low", "Standard", "High", "VeryHigh">>
Rank(l) == CHOOSE i \in DOMAIN Levels : Levels[i] = l
NoCost == 0

\* Iterations in thousands where they are thousands, lengths in bytes, memory in MB.
Par(f, i, salt, key, mem, par, level) ==
  [function |-> f, iterations |-> i, salt |-> salt, key |-> key, memory |-> mem,
   parallelism |-> par, level |-> level]

Fast(f) ==
  CASE f = "PBKDF2Sha256" -> Par(f, 10000, 16, 32, NoCost, NoCost, "Low")
    [] f = "PBKDF2Sha512" -> Par(f, 8000, 32, 32, NoCost, NoCost, "Low")
    [] f = "Argon2id" -> Par(f, 1, 16, 32, 8, 2, "Low")
    [] f = "Scrypt" -> Par(f, 1, 16, 32, 4, 1, "Low")
Default(f) ==
  CASE f = "PBKDF2Sha256" -> Par(f, 200000, 32, 32, NoCost, NoCost, "Standard")
    [] f = "PBKDF2Sha512" -> Par(f, 150000, 64, 64, NoCost, NoCost, "Standard")
    [] f = "Argon2id" -> Par(f, 3, 16, 32, 64, 4, "High")
    [] f = "Scrypt" -> Par(f, 1, 32, 32, 32, 1, "High")
HighSecurity(f) ==
  CASE f = "PBKDF2Sha256" -> Par(f, 500000, 32, 32, NoCost, NoCost, "High")
    [] f = "PBKDF2Sha512" -> Par(f, 350000, 64, 64, NoCost, NoCost, "High")
    [] f = "Argon2id" -> Par(f, 4, 16, 32, 128, 8, "VeryHigh")
    [] f = "Scrypt" -> Par(f, 2, 32, 32, 64, 2, "VeryHigh")

\* get_parameters, whose cache holds the same for every level.
Parameters(f, level) ==
  CASE level = "Low" -> Fast(f)
    [] level \in {"Standard", "High"} -> Default(f)
    [] level = "VeryHigh" -> HighSecurity(f)

\* derive_key: the hash, the iterations and the length a key comes from. Argon2id
\* and scrypt are not there: PBKDF2 stands in for them.
Derivation(p) ==
  CASE p.function \in {"PBKDF2Sha256", "Argon2id"} ->
         [hash |-> "Sha256", iterations |-> p.iterations, length |-> p.key]
    [] p.function = "PBKDF2Sha512" ->
         [hash |-> "Sha512", iterations |-> p.iterations, length |-> p.key]
    [] p.function = "Scrypt" ->
         [hash |-> "Sha512", iterations |-> p.iterations * 10, length |-> p.key]

-----------------------------------------------------------------------------
KeyInit ==
  /\ chosen \in KdfFunctions \X {Levels[i] : i \in DOMAIN Levels}
  /\ params = Parameters(chosen[1], chosen[2])
  /\ tunings = 0

\* auto_tune tries multiples of what it began with, in quarters, and keeps any of
\* them or none: which is closest to the target is up to the machine.
Quarters == {2, 3, 4, 5, 6, 8}
TuneIterations(q) ==
  /\ params.function \notin MemoryHard
  /\ params' = [params EXCEPT !.iterations = (@ * q) \div 4]
TuneMemory(q, r) ==
  /\ params.function \in MemoryHard
  /\ params' = [params EXCEPT !.memory = (@ * q) \div 4, !.parallelism = (@ * r) \div 4]

AutoTune ==
  /\ tunings < MaxTunings /\ tunings' = tunings + 1
  /\ \/ UNCHANGED params
     \/ \E q \in Quarters \cup {12, 20} : TuneIterations(q)
     \/ \E q, r \in Quarters : TuneMemory(q, r)
  /\ UNCHANGED chosen

\* Parameters are asked for anew: what was tuned is not in the cache.
AskAgain(f, level) ==
  /\ chosen' = <<f, level>> /\ params' = Parameters(f, level) /\ tunings' = 0

KeyNext ==
  \/ AutoTune
  \/ \E f \in KdfFunctions, i \in DOMAIN Levels : AskAgain(f, Levels[i])

KeySpec == KeyInit /\ [][KeyNext]_KeyVars

-----------------------------------------------------------------------------
KeyTypeOK ==
  /\ params.function = chosen[1] /\ params.iterations \in Nat
  /\ tunings \in 0..MaxTunings

\* How strong a key is follows the level it was asked for only as far as this: a
\* higher level never derives with fewer iterations, High is Standard, and what
\* tuning does to the memory-hard functions never changes a key, for it turns
\* the two parameters the stand-ins ignore (key_derivation.rs:233-345, 373-385).
StrengthFollowsLevel ==
  /\ tunings = 0 => \A i \in 1..Rank(chosen[2]) :
       Derivation(Parameters(chosen[1], Levels[i])).iterations <= Derivation(params).iterations
  /\ chosen[1] \in MemoryHard =>
       Derivation(params) = Derivation(Parameters(chosen[1], chosen[2]))
=============================================================================
