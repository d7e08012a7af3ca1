---------------------------- MODULE ConfigStore ----------------------------
(***************************************************************************)
(* What the configuration file promises, whatever protects it: the program *)
(* changes its configuration at will, now and then stores all of it at     *)
(* once, and every start begins with what was stored last.                 *)
(***************************************************************************)
EXTENDS Naturals

CONSTANT Shares

VARIABLES current, stored, starts

States == {"absent", "enabled", "disabled"}

Init == /\ current = [s \in Shares |-> "absent"]
        /\ stored = current
        /\ starts = 0

Change == current' \in [Shares -> States] /\ UNCHANGED <<stored, starts>>
Save   == stored' = current /\ UNCHANGED <<current, starts>>
Start  == current' = stored /\ starts' = starts + 1 /\ UNCHANGED stored

Next == Change \/ Save \/ Start

Spec == Init /\ [][Next]_<<current, stored, starts>>
=============================================================================
